---------------------------- MODULE Spec2Model ----------------------------
(***************************************************************************)
(* Model of the drone-spoofing animations of the Anti-Drone-System front   *)
(* end: the two versions of MassRedirectionSimulation (with and without    *)
(* the detour waypoints), DataInjectionSimulation and the keyboard driven  *)
(* DroneSimulation.                                                        *)
(*                                                                         *)
(* React semantics that the model keeps:                                   *)
(*  - an event handler or timer callback runs to completion, then the      *)
(*    component re-renders and its effects run; one action of the model is *)
(*    the handler together with that render and those effects;             *)
(*  - a function handed to setInterval keeps the variables of the render   *)
(*    that created it (its closure); the timers variable stores them;      *)
(*  - an updater function handed to a state setter is run by React either  *)
(*    at once (eager state computation) or during the next render, after   *)
(*    the callback has returned; the callback cannot tell which, so the    *)
(*    model takes both.                                                    *)
(*                                                                         *)
(* Lengths are fixed point numbers in tenths of a pixel (dpx): the source  *)
(* computes in floating point with a step of 1.5 px.                       *)
(***************************************************************************)
EXTENDS Integers, Sequences, FiniteSets, TLC

VARIABLES
  sim,               \* which component is mounted
  mounted,           \* FALSE once the component has been unmounted
  attackPhase,       \* useState: the scenario phase
  status,            \* useState: the status line
  digitalFootprints, \* useState: the footprint log
  finalPositions,    \* useState: the final-position markers
  simulationRef,     \* useRef: handle of the last interval created (0 = null)
  timers,            \* the live intervals, each with the closure of its callback
  \* MassRedirectionSimulation
  drones,            \* useState: the list of drone records
  droneCount,        \* useState: the slider value
  \* DataInjectionSimulation
  isPlaying,         \* useState
  simulationTime,    \* useState: simulated time in ms
  drone,             \* useState: the true position
  reportedDrone,     \* useState: the reported position
  waypoints,         \* useState: the mission list (its elements are shared objects)
  currentWaypointIdx,  \* useState
  reportedWaypointIdx, \* useState
  dronePath,         \* useState
  reportedPath,      \* useState
  dataPackets,       \* useState
  latestDronePos,    \* useRef
  latestReportedPos, \* useRef
  rng,               \* the stream of values Math.random() returns
  \* DroneSimulation (keyboard)
  state,             \* useState of useGameLoop: the drone and the status message
  keys,              \* useState of useKeyboardInput: the keys held down
  logs,              \* useState: the log panel, newest entry first
  gameRef,           \* useRef: handle of the last interval created (0 = null)
  initialObject,     \* the module-level initialState.drone object: its fields now,
                     \* and whether state.drone is that very object
  \* the module-level helper functions, called on their own
  calc               \* one call: the function, its arguments and what it returned

commonVars == <<attackPhase, status, digitalFootprints, finalPositions, simulationRef, timers>>
massVars == <<drones, droneCount>>
injVars == <<isPlaying, simulationTime, drone, reportedDrone, waypoints, currentWaypointIdx,
             reportedWaypointIdx, dronePath, reportedPath, dataPackets, latestDronePos,
             latestReportedPos, rng>>

kbdVars == <<state, keys, logs, gameRef, initialObject>>

vars == <<sim, mounted, commonVars, massVars, injVars, kbdVars, calc>>

(***************************************************************************)
(* Bounds of the model                                                     *)
(***************************************************************************)
MaxDrones == 2       \* the slider offers 1..20
MaxTicks == 360      \* ticks of one run that are explored
MaxHandles == 2      \* interval handles that are told apart
MaxKeysHeld == 1

(***************************************************************************)
(* Program constants (dpx)                                                 *)
(***************************************************************************)
DRONE_SPEED == 15
DRONE_SIZE_OFFSET == 140
PathBuffer == 150
WorldWidth == 10000
WorldHeight == 6500
StartStrip == 1000

antiDroneTower == [x |-> 5000, y |-> 3250, radius |-> 1500, detectionFenceRadius |-> 3000]
targetZone == [x |-> 8500, y |-> 3250, size |-> 1000]
safeZone == [x |-> 5000, y |-> 6000, size |-> 1200]
safeZoneTarget == [x |-> safeZone.x, y |-> safeZone.y]
navNodes == <<[x |-> antiDroneTower.x - antiDroneTower.radius - 500, y |-> antiDroneTower.y],
              [x |-> antiDroneTower.x + antiDroneTower.radius + 500, y |-> antiDroneTower.y]>>

\* Math.random() in createDrone: the start points that are explored
StartPoints ==
  { p \in { [x |-> 500, y |-> 3250], [x |-> 990, y |-> 2000] } :
      p.x < StartStrip /\ p.x < WorldWidth /\ p.y < WorldHeight }

Pt(p) == [x |-> p.x, y |-> p.y]

(***************************************************************************)
(* Arithmetic                                                              *)
(***************************************************************************)
RECURSIVE SqrtSearch(_, _, _)
SqrtSearch(n, lo, hi) ==
  IF lo >= hi THEN lo
  ELSE LET mid == (lo + hi + 1) \div 2
       IN IF mid * mid <= n THEN SqrtSearch(n, mid, hi) ELSE SqrtSearch(n, lo, mid - 1)

\* floor of the square root, n < 2^31
Isqrt(n) == SqrtSearch(n, 0, 46340)

Abs(n) == IF n < 0 THEN -n ELSE n

\* n / d rounded to the nearest integer, d > 0
RoundDiv(n, d) == IF n >= 0 THEN (2 * n + d) \div (2 * d) ELSE -((2 * (-n) + d) \div (2 * d))

DistSq(a, b) == (a.x - b.x) * (a.x - b.x) + (a.y - b.y) * (a.y - b.y)

dist(a, b) == Isqrt(DistSq(a, b))

\* mutant: the snap test compares the squared distance with the speed itself
moveTowards_unsquared(from, to, speed) ==
  LET d == dist(from, to)
      dx == to.x - from.x
      dy == to.y - from.y
  IN IF DistSq(from, to) < speed
     THEN Pt(to)
     ELSE [x |-> from.x + RoundDiv(dx * speed, d), y |-> from.y + RoundDiv(dy * speed, d)]

moveTowards(from, to, speed) ==
  LET d == dist(from, to)
      dx == to.x - from.x
      dy == to.y - from.y
  IN IF DistSq(from, to) < speed * speed
     THEN Pt(to)
     ELSE [x |-> from.x + RoundDiv(dx * speed, d), y |-> from.y + RoundDiv(dy * speed, d)]


(***************************************************************************)
(* isPathBlocked (detour version).  With D = to - f, E = f - c the source  *)
(* has a = D.D, b = 2 D.E, cc = E.E - r^2, det = b^2 - 4 a cc and the      *)
(* roots t1, t2 = (-b -+ sqrt(det)) / 2a.  The products exceed 32 bits, so *)
(* det >= 0 is decided on three-limb products, and the tests on the roots  *)
(* are stated without the square root, with B = b/2 and s = sqrt(B^2-a cc):*)
(*   t1 >= 0  iff  s <= -B      iff  B <= 0 and cc >= 0                    *)
(*   t1 <= 1  iff  s >= -(a+B)  iff  a+B >= 0 or a+2B+cc <= 0              *)
(*   t2 >= 0  iff  s >= B       iff  B <= 0 or cc <= 0                     *)
(*   t2 <= 1  iff  s <= a+B     iff  a+B >= 0 and a+2B+cc >= 0             *)
(* For a = 0 the source divides 0 by 0: both roots are NaN, the result is  *)
(* false.                                                                  *)
(***************************************************************************)
Limb == 32768

\* x * y for 0 <= x, y < 2^29 as <<high, middle, low>> limbs
Product(x, y) ==
  LET xh == x \div Limb
      xl == x % Limb
      yh == y \div Limb
      yl == y % Limb
      lo == xl * yl
      mid == xh * yl + xl * yh + (lo \div Limb)
  IN <<xh * yh + (mid \div Limb), mid % Limb, lo % Limb>>

\* p >= q for limb triples
LimbsGeq(p, q) ==
  \/ p[1] > q[1]
  \/ p[1] = q[1] /\ p[2] > q[2]
  \/ p[1] = q[1] /\ p[2] = q[2] /\ p[3] >= q[3]

\* B * B >= a * cc, a >= 0
DetNonNegative(a, B, cc) ==
  IF cc <= 0 THEN TRUE ELSE LimbsGeq(Product(Abs(B), Abs(B)), Product(a, cc))

isPathBlocked(from, to, circle) ==
  LET f == [x |-> from.x + DRONE_SIZE_OFFSET, y |-> from.y + DRONE_SIZE_OFFSET]
      r == circle.radius + PathBuffer
      Dx == to.x - f.x
      Dy == to.y - f.y
      Ex == f.x - circle.x
      Ey == f.y - circle.y
      a == Dx * Dx + Dy * Dy
      B == Dx * Ex + Dy * Ey
      cc == Ex * Ex + Ey * Ey - r * r
      g1 == a + 2 * B + cc
      t1in == (B <= 0 /\ cc >= 0) /\ (a + B >= 0 \/ g1 <= 0)
      t2in == (B <= 0 \/ cc <= 0) /\ (a + B >= 0 /\ g1 >= 0)
  IN IF ~DetNonNegative(a, B, cc) THEN FALSE
     ELSE IF a = 0 THEN FALSE
     ELSE t1in \/ t2in

(***************************************************************************)
(* The footprint log                                                       *)
(***************************************************************************)
Footprint(type, msg, n) == [type |-> type, msg |-> msg, n |-> n]

\* mutant: new entries are put in front, as in the keyboard scenario's log
addFootprint_newestFirst(log, entries) == entries \o log

\* addFootprint, called once for each of the entries in turn:
\* setDigitalFootprints(prev => [...prev, entry])
addFootprint(log, entries) == log \o entries

\* number of entries of a log that satisfy Test
RECURSIVE CountType(_, _)
CountType(log, type) ==
  IF log = <<>> THEN 0
  ELSE (IF log[1].type = type THEN 1 ELSE 0) + CountType(Tail(log), type)

RECURSIVE CountMsg(_, _)
CountMsg(log, msg) ==
  IF log = <<>> THEN 0
  ELSE (IF log[1].msg = msg THEN 1 ELSE 0) + CountMsg(Tail(log), msg)

(***************************************************************************)
(* MassRedirectionSimulation: one drone in one tick                        *)
(***************************************************************************)
createDrone(id, p) ==
  [id |-> id, x |-> p.x, y |-> p.y, status |-> "NORMAL", path |-> <<Pt(p)>>, navTarget |-> "null"]

NavPoint(nav) ==
  CASE nav = "node0" -> navNodes[1]
    [] nav = "node1" -> navNodes[2]
    [] OTHER -> safeZoneTarget

\* mutant: a drone exactly on the fence is not detected
Detected_strict(dr) ==
  /\ dr.status = "NORMAL"
  /\ DistSq(dr, antiDroneTower) < antiDroneTower.detectionFenceRadius * antiDroneTower.detectionFenceRadius

\* step 1: a NORMAL drone on or inside the fence is detected
Detected(dr) ==
  /\ dr.status = "NORMAL"
  /\ DistSq(dr, antiDroneTower) <= antiDroneTower.detectionFenceRadius * antiDroneTower.detectionFenceRadius

\* mutant: the status is not carried over from the previous tick
StatusAfterDetection_reset(dr) == IF Detected(dr) THEN "REDIRECTED" ELSE "NORMAL"

StatusAfterDetection(dr) == IF Detected(dr) THEN "REDIRECTED" ELSE dr.status

\* mutant: the farther of the two nodes is taken
ChooseNavTarget_farther(dr) ==
  IF isPathBlocked(dr, safeZoneTarget, antiDroneTower)
  THEN (IF DistSq(dr, navNodes[1]) > DistSq(dr, navNodes[2]) THEN "node0" ELSE "node1")
  ELSE "safe"

\* the pathfinding of the detour version, at the moment of detection
ChooseNavTarget(dr) ==
  IF isPathBlocked(dr, safeZoneTarget, antiDroneTower)
  THEN (IF DistSq(dr, navNodes[1]) < DistSq(dr, navNodes[2]) THEN "node0" ELSE "node1")
  ELSE "safe"

NavAfterDetection(v, dr) ==
  IF v = "detour" /\ Detected(dr) THEN ChooseNavTarget(dr) ELSE dr.navTarget

\* mutant: the target is chosen from the status of the previous tick
TickTarget_staleStatus(v, dr) ==
  IF dr.status = "NORMAL"
  THEN [x |-> targetZone.x, y |-> targetZone.y]
  ELSE IF v = "detour" THEN NavPoint(NavAfterDetection(v, dr))
  ELSE [x |-> safeZone.x, y |-> safeZone.y]

\* step 2: the point the drone steps towards
TickTarget(v, dr) ==
  IF StatusAfterDetection(dr) = "NORMAL"
  THEN [x |-> targetZone.x, y |-> targetZone.y]
  ELSE IF v = "detour" THEN NavPoint(NavAfterDetection(v, dr))
  ELSE [x |-> safeZone.x, y |-> safeZone.y]

\* step 3
NewPos(v, dr) == moveTowards(dr, TickTarget(v, dr), DRONE_SPEED)

\* mutant: the node counts as reached within one step instead of two
NavReached_oneStep(v, dr) ==
  LET nav == NavAfterDetection(v, dr)
  IN /\ v = "detour"
     /\ StatusAfterDetection(dr) = "REDIRECTED"
     /\ nav # "null" /\ nav # "safe"
     /\ DistSq(NewPos(v, dr), NavPoint(nav)) < DRONE_SPEED * DRONE_SPEED

\* the intermediate navTarget is replaced once it is reached
NavReached(v, dr) ==
  LET nav == NavAfterDetection(v, dr)
  IN /\ v = "detour"
     /\ StatusAfterDetection(dr) = "REDIRECTED"
     /\ nav # "null" /\ nav # "safe"
     /\ DistSq(NewPos(v, dr), NavPoint(nav)) < (DRONE_SPEED * 2) * (DRONE_SPEED * 2)

NewNavTarget(v, dr) == IF NavReached(v, dr) THEN "safe" ELSE NavAfterDetection(v, dr)

\* mutant: the whole size of the safe zone instead of half of it
InSafeZone_full(pos) == DistSq(pos, safeZoneTarget) < safeZone.size * safeZone.size

\* mutant: the safe zone is never recognised
InSafeZone_never(pos) == FALSE

\* step 4: a REDIRECTED drone whose new position is in the safe zone
InSafeZone(pos) == 4 * DistSq(pos, safeZoneTarget) < safeZone.size * safeZone.size

Secured(v, dr) ==
  StatusAfterDetection(dr) = "REDIRECTED" /\ InSafeZone(NewPos(v, dr))

NewStatus(v, dr) == IF Secured(v, dr) THEN "SAFE" ELSE StatusAfterDetection(dr)

\* mutant: the position before the move is appended to the path
UpdateDrone_oldPosition(v, dr) ==
  [dr EXCEPT !.x = NewPos(v, dr).x, !.y = NewPos(v, dr).y, !.status = NewStatus(v, dr),
             !.path = Append(dr.path, Pt(dr)), !.navTarget = NewNavTarget(v, dr)]

UpdateDrone(v, dr) ==
  LET newPos == NewPos(v, dr)
  IN [dr EXCEPT !.x = newPos.x, !.y = newPos.y, !.status = NewStatus(v, dr),
                   !.path = Append(dr.path, newPos), !.navTarget = NewNavTarget(v, dr)]

\* mutant: 'ATTACK' is logged in every tick in which the drone is REDIRECTED
DroneFootprints_repeating(v, dr) ==
  (IF StatusAfterDetection(dr) = "REDIRECTED"
   THEN <<Footprint("ATTACK", "detected", dr.id)>> ELSE <<>>)
  \o (IF v = "detour" /\ Detected(dr) /\ ChooseNavTarget(dr) # "safe"
      THEN <<Footprint("AUTH", "blocked", dr.id)>> ELSE <<>>)
  \o (IF Secured(v, dr) THEN <<Footprint("SPOOF", "secured", dr.id)>> ELSE <<>>)

\* the addFootprint calls of the updater for one drone, in order
DroneFootprints(v, dr) ==
  (IF Detected(dr) THEN <<Footprint("ATTACK", "detected", dr.id)>> ELSE <<>>)
  \o (IF v = "detour" /\ Detected(dr) /\ ChooseNavTarget(dr) # "safe"
      THEN <<Footprint("AUTH", "blocked", dr.id)>> ELSE <<>>)
  \o (IF Secured(v, dr) THEN <<Footprint("SPOOF", "secured", dr.id)>> ELSE <<>>)

\* the updater handed to setDrones: the new list
UpdateDrones(v, prev) == [i \in DOMAIN prev |-> UpdateDrone(v, prev[i])]

RECURSIVE UpdaterFootprints(_, _)
UpdaterFootprints(v, prev) ==
  IF prev = <<>> THEN <<>> ELSE DroneFootprints(v, Head(prev)) \o UpdaterFootprints(v, Tail(prev))

\* the flags the updater leaves in the variables of the tick that called it
UpdaterAllSecured(v, prev) ==
  \A i \in DOMAIN prev : prev[i].status # "NORMAL" /\ StatusAfterDetection(prev[i]) # "REDIRECTED"

UpdaterNextPhase(v, prev, closurePhase) ==
  IF (\E i \in DOMAIN prev : Detected(prev[i])) /\ closurePhase # "REDIRECTING"
  THEN "REDIRECTING" ELSE closurePhase


(***************************************************************************)
(* MassRedirectionSimulation: the component                                *)
(***************************************************************************)
MassSims == {"detour", "plain"}

\* the handle setInterval returns: one that names no live interval (every
\* call stores its result in simulationRef, so no other handle is remembered)
NewHandle ==
  CHOOSE h \in 1..MaxHandles :
    /\ \A t \in timers : t.h # h
    /\ \A g \in 1..(h - 1) : \E t \in timers : t.h = g

\* the lists createDrone can produce for a count of n
NewDroneLists(n) ==
  { [i \in 1..n |-> createDrone(i - 1, ps[i])] : ps \in [1..n -> StartPoints] }

\* mutant: the interval is not cancelled
clearInterval_forgotten(ts, ref) == ts

\* clearInterval(simulationRef.current)
clearInterval(ts, ref) == { t \in ts : t.h # ref }

\* initializeDrones called from a render whose attackPhase is INACTIVE: it
\* empties the log, logs 'System armed' and replaces the drones
initializeDrones(newDrones) ==
  /\ digitalFootprints' = <<Footprint("AUTH", "armed", droneCount')>>
  /\ finalPositions' = <<>>
  /\ drones' = newDrones
  /\ status' = "Drones initialized"

\* the variables of the other components while this one is mounted
InjUnused ==
  /\ isPlaying = FALSE /\ simulationTime = 0
  /\ drone = [x |-> 0, y |-> 0] /\ reportedDrone = [x |-> 0, y |-> 0]
  /\ waypoints = <<>> /\ currentWaypointIdx = 0 /\ reportedWaypointIdx = 0
  /\ dronePath = <<>> /\ reportedPath = <<>> /\ dataPackets = <<>>
  /\ latestDronePos = [x |-> 0, y |-> 0] /\ latestReportedPos = [x |-> 0, y |-> 0]
  /\ rng = "none"

NoCall == [fn |-> "none"]

KbdUnused ==
  /\ state = [drone |-> [x |-> 0, y |-> 0, isSpoofed |-> FALSE, isRedirecting |-> FALSE],
              statusMessage |-> ""]
  /\ keys = {} /\ logs = <<>> /\ gameRef = 0
  /\ initialObject = [drone |-> [x |-> 0, y |-> 0, isSpoofed |-> FALSE, isRedirecting |-> FALSE],
                      held |-> FALSE]

MassInit ==
  /\ sim \in MassSims
  /\ calc = NoCall
  /\ mounted = TRUE
  /\ droneCount \in 1..MaxDrones
  /\ drones \in NewDroneLists(droneCount)
  /\ attackPhase = "INACTIVE"
  /\ status = "Drones initialized"
  /\ digitalFootprints = <<Footprint("AUTH", "armed", droneCount)>>
  /\ finalPositions = <<>>
  /\ simulationRef = 0
  /\ timers = {}
  /\ InjUnused
  /\ KbdUnused

\* the slider: onChange sets droneCount, the effect on [droneCount, attackPhase]
\* then runs initializeDrones
setDroneCount(n) ==
  /\ sim \in MassSims /\ mounted
  /\ attackPhase = "INACTIVE"
  /\ n # droneCount
  /\ droneCount' = n
  /\ \E newDrones \in NewDroneLists(n) : initializeDrones(newDrones)
  /\ UNCHANGED <<sim, calc, mounted, attackPhase, simulationRef, timers, injVars, kbdVars>>

\* the phase a run starts in
StartPhase == "NORMAL_FLIGHT"

\* the attackPhase that the callback handed to setInterval reads: the one of
\* the render whose startSimulation is running
ClosurePhase == attackPhase

\* mutant: the test on the phase is missing
StartAllowed_always == TRUE

\* if (attackPhase !== AttackPhase.INACTIVE) return
StartAllowed == attackPhase = "INACTIVE"

startSimulation ==
  /\ sim \in MassSims /\ mounted
  /\ StartAllowed
  /\ UNCHANGED droneCount
  /\ \E newDrones \in NewDroneLists(droneCount) :
       /\ finalPositions' = <<>>
       /\ drones' = newDrones
  /\ digitalFootprints' = <<Footprint("AUTH", "armed", droneCount),
                            Footprint("WARN", "en route", droneCount)>>
  /\ attackPhase' = StartPhase
  /\ status' = "Phase 1"
  /\ simulationRef' = NewHandle
  /\ timers' = timers \cup {[h |-> NewHandle, attackPhase |-> ClosurePhase, droneCount |-> droneCount]}
  /\ UNCHANGED <<sim, calc, mounted, injVars, kbdVars>>

\* resetSimulation, and the effect on [droneCount, attackPhase] of the render
\* that follows: it runs initializeDrones when attackPhase has changed
ResetReinitializes == attackPhase # "INACTIVE"

resetSimulation ==
  /\ sim \in MassSims /\ mounted
  /\ timers' = clearInterval(timers, simulationRef)
  /\ attackPhase' = "INACTIVE"
  /\ UNCHANGED droneCount
  /\ IF ResetReinitializes
     THEN \E newDrones \in NewDroneLists(droneCount) : initializeDrones(newDrones)
     ELSE /\ drones' = <<>>
          /\ digitalFootprints' = <<>>
          /\ finalPositions' = <<>>
          /\ status' = "System reset"
  /\ UNCHANGED <<sim, calc, mounted, simulationRef, injVars, kbdVars>>

\* unmounting: the cleanup of the mount effect runs and the state of the
\* component is discarded
unmount ==
  /\ sim \in MassSims /\ mounted
  /\ mounted' = FALSE
  /\ timers' = clearInterval(timers, simulationRef)
  /\ drones' = <<>>
  /\ droneCount' = 0
  /\ attackPhase' = "INACTIVE"
  /\ status' = ""
  /\ digitalFootprints' = <<>>
  /\ finalPositions' = <<>>
  /\ simulationRef' = 0
  /\ UNCHANGED <<sim, calc, injVars, kbdVars>>

\* whether React may run the updater of setDrones inside the call
EagerChoices == BOOLEAN

\* the local variables of runSimulationTick after the call of setDrones;
\* eager tells whether the updater has run by then
TickNextPhase(t, eager) ==
  IF eager THEN UpdaterNextPhase(sim, drones, t.attackPhase) ELSE t.attackPhase

TickAllSecured(t, eager) == IF eager THEN UpdaterAllSecured(sim, drones) ELSE TRUE

TickRedirecting(t, eager) ==
  TickNextPhase(t, eager) = "REDIRECTING" /\ t.attackPhase # "REDIRECTING"

TickSecured(t, eager) == TickAllSecured(t, eager) /\ t.attackPhase # "INACTIVE"

\* mutant: setAttackPhase(nextPhase) without the test on nextPhase
PhaseAfterTick_unconditional(t, eager) ==
  IF TickSecured(t, eager) THEN "SECURED" ELSE TickNextPhase(t, eager)

PhaseAfterTick(t, eager) ==
  IF TickSecured(t, eager) THEN "SECURED"
  ELSE IF TickRedirecting(t, eager) THEN "REDIRECTING" ELSE attackPhase

\* runSimulationTick of the interval t
TickBody(t, eager) ==
  LET prev == drones
      newDronesList == UpdateDrones(sim, prev)
      redirecting == TickRedirecting(t, eager)
      secured == TickSecured(t, eager)
      summary == <<Footprint("AUTH", "all secured", t.droneCount)>>
  IN /\ drones' = newDronesList
     /\ attackPhase' = PhaseAfterTick(t, eager)
     /\ status' = IF secured THEN "Phase 3" ELSE IF redirecting THEN "Phase 2" ELSE status
     /\ digitalFootprints' =
          IF ~secured THEN addFootprint(digitalFootprints, UpdaterFootprints(sim, prev))
          ELSE IF eager
          THEN addFootprint(digitalFootprints, UpdaterFootprints(sim, prev) \o summary)
          ELSE addFootprint(digitalFootprints, summary \o UpdaterFootprints(sim, prev))
     /\ timers' = IF secured THEN clearInterval(timers, simulationRef) ELSE timers
     /\ finalPositions' =
          IF secured /\ sim = "detour"
          THEN (IF eager THEN [i \in DOMAIN newDronesList |->
                                 [id |-> newDronesList[i].id, x |-> newDronesList[i].x,
                                  y |-> newDronesList[i].y]]
                ELSE <<>>)
          ELSE finalPositions
     /\ UNCHANGED <<sim, calc, mounted, droneCount, simulationRef, injVars, kbdVars>>

runSimulationTick ==
  /\ sim \in MassSims /\ mounted
  /\ \A i \in DOMAIN drones : Len(drones[i].path) <= MaxTicks
  /\ \E t \in timers : \E eager \in EagerChoices : TickBody(t, eager)

MassNext ==
  \/ \E n \in 1..MaxDrones : setDroneCount(n)
  \/ startSimulation
  \/ resetSimulation
  \/ unmount
  \/ runSimulationTick

SpecMass == MassInit /\ [][MassNext]_vars


(***************************************************************************)
(* DataInjectionSimulation                                                 *)
(***************************************************************************)
SIMULATION_SPEED == 50
INJ_DRONE_SPEED == 20
JITTER_AMOUNT == 40

MaxStarts == 2       \* 'Simulation initiated' entries of one run that are explored
MaxPackets == 2      \* data packets whose removal is still pending

initialDroneState == [x |-> 500, y |-> 1000]
maliciousTarget == [x |-> 8000, y |-> 5000]
radioTower == [x |-> 8500, y |-> 3250]
initialWaypoints ==
  <<[x |-> 3000, y |-> 1000], [x |-> 5000, y |-> 3000], [x |-> 3000, y |-> 5000],
    [x |-> 500, y |-> 5000], [x |-> 500, y |-> 1000]>>

\* Math.random(): the streams that are explored.  "still" returns 0.5 for
\* every jitter, "shaky" alternates between two other pairs of values
RandomStreams == {"still", "shaky"}

\* (Math.random() - 0.5) * JITTER_AMOUNT for x and y in the tick that ends at time
Jitter(stream, time) ==
  IF stream = "shaky"
  THEN (IF (time \div SIMULATION_SPEED) % 2 = 0
        THEN [x |-> (3 * JITTER_AMOUNT) \div 8, y |-> -(JITTER_AMOUNT \div 2)]
        ELSE [x |-> -(JITTER_AMOUNT \div 2), y |-> JITTER_AMOUNT \div 4])
  ELSE [x |-> 0, y |-> 0]

\* JavaScript compares the phase names as strings
NameRank(ph) ==
  CASE ph = "ATTACK_INJECT" -> 1 [] ph = "COMPLETED" -> 2 [] ph = "HIJACKED" -> 3
    [] ph = "INACTIVE" -> 4 [] ph = "NORMAL_FLIGHT" -> 5

\* nextPhase >= AttackPhase.HIJACKED
AtLeastHijacked(ph) == NameRank(ph) >= NameRank("HIJACKED")

\* nextPhase < AttackPhase.HIJACKED
BelowHijacked(ph) == NameRank(ph) < NameRank("HIJACKED")

\* mutant: the thresholds are compared with >= instead of >
PhaseForTime_inclusive(newTime, closurePhase) ==
  IF newTime >= 12000 THEN "COMPLETED"
  ELSE IF newTime >= 7000 THEN "HIJACKED"
  ELSE IF newTime >= 4000 THEN "ATTACK_INJECT"
  ELSE IF newTime >= 500 THEN "NORMAL_FLIGHT"
  ELSE closurePhase

\* the phase for the new time; the closure's phase below the first threshold
PhaseForTime(newTime, closurePhase) ==
  IF newTime > 12000 THEN "COMPLETED"
  ELSE IF newTime > 7000 THEN "HIJACKED"
  ELSE IF newTime > 4000 THEN "ATTACK_INJECT"
  ELSE IF newTime > 500 THEN "NORMAL_FLIGHT"
  ELSE closurePhase

\* the closure of the runSimulationTick of the current render
InjClosure(h) ==
  [h |-> h, simulationTime |-> simulationTime', attackPhase |-> attackPhase',
   currentWaypointIdx |-> currentWaypointIdx', reportedWaypointIdx |-> reportedWaypointIdx']

\* mutant: the effect does not look at isPlaying
IntervalEffect_ignoresPause ==
  LET cleaned == clearInterval(timers, simulationRef)
      h == CHOOSE g \in 1..MaxHandles :
             /\ \A t \in cleaned : t.h # g
             /\ \A k \in 1..(g - 1) : \E t \in cleaned : t.h = k
  IN IF attackPhase' # "COMPLETED"
     THEN /\ simulationRef' = h
          /\ timers' = cleaned \cup {InjClosure(h)}
     ELSE /\ simulationRef' = simulationRef
          /\ timers' = cleaned

\* the interval effect on [isPlaying, runSimulationTick, attackPhase] after a
\* render in which one of them has changed: the cleanup of the previous run
\* of the effect, then the effect
IntervalEffect ==
  LET cleaned == clearInterval(timers, simulationRef)
      h == CHOOSE g \in 1..MaxHandles :
             /\ \A t \in cleaned : t.h # g
             /\ \A k \in 1..(g - 1) : \E t \in cleaned : t.h = k
  IN IF isPlaying' /\ attackPhase' # "COMPLETED"
     THEN /\ simulationRef' = h
          /\ timers' = cleaned \cup {InjClosure(h)}
     ELSE /\ simulationRef' = simulationRef
          /\ timers' = cleaned

EffectDepsChanged ==
  \/ isPlaying' # isPlaying
  \/ attackPhase' # attackPhase
  \/ simulationTime' # simulationTime
  \/ currentWaypointIdx' # currentWaypointIdx
  \/ reportedWaypointIdx' # reportedWaypointIdx

RenderEffects ==
  IF EffectDepsChanged THEN IntervalEffect ELSE UNCHANGED <<simulationRef, timers>>

InjInit ==
  /\ sim = "inject"
  /\ calc = NoCall
  /\ mounted = TRUE
  /\ drones = <<>> /\ droneCount = 0
  /\ isPlaying = FALSE
  /\ simulationTime = 0
  /\ attackPhase = "INACTIVE"
  /\ status = "Use the playback controls"
  /\ drone = initialDroneState
  /\ reportedDrone = initialDroneState
  /\ waypoints = initialWaypoints
  /\ currentWaypointIdx = 0
  /\ reportedWaypointIdx = 0
  /\ dronePath = <<>>
  /\ reportedPath = <<>>
  /\ dataPackets = <<>>
  /\ finalPositions = <<>>
  /\ digitalFootprints = <<>>
  /\ simulationRef = 0
  /\ timers = {}
  /\ latestDronePos = initialDroneState
  /\ latestReportedPos = initialDroneState
  /\ rng \in RandomStreams
  /\ KbdUnused

\* mutant: setDigitalFootprints([]) is missing
InjResetSimulation_keepsLog ==
  /\ sim = "inject" /\ mounted
  /\ isPlaying' = FALSE
  /\ simulationTime' = 0
  /\ drone' = initialDroneState
  /\ reportedDrone' = initialDroneState
  /\ dronePath' = <<initialDroneState>>
  /\ reportedPath' = <<initialDroneState>>
  /\ latestDronePos' = initialDroneState
  /\ latestReportedPos' = initialDroneState
  /\ currentWaypointIdx' = 0
  /\ reportedWaypointIdx' = 0
  /\ digitalFootprints' = digitalFootprints
  /\ dataPackets' = <<>>
  /\ finalPositions' = <<>>
  /\ attackPhase' = "INACTIVE"
  /\ status' = "Simulation reset"
  \* clearInterval in the handler, then the effect
  /\ LET cleaned == clearInterval(timers, simulationRef)
     IN /\ timers' = cleaned
        /\ simulationRef' = simulationRef
  /\ UNCHANGED <<sim, calc, mounted, massVars, waypoints, rng, kbdVars>>

InjResetSimulation ==
  /\ sim = "inject" /\ mounted
  /\ isPlaying' = FALSE
  /\ simulationTime' = 0
  /\ drone' = initialDroneState
  /\ reportedDrone' = initialDroneState
  /\ dronePath' = <<initialDroneState>>
  /\ reportedPath' = <<initialDroneState>>
  /\ latestDronePos' = initialDroneState
  /\ latestReportedPos' = initialDroneState
  /\ currentWaypointIdx' = 0
  /\ reportedWaypointIdx' = 0
  /\ digitalFootprints' = <<>>
  /\ dataPackets' = <<>>
  /\ finalPositions' = <<>>
  /\ attackPhase' = "INACTIVE"
  /\ status' = "Simulation reset"
  \* clearInterval in the handler, then the effect
  /\ LET cleaned == clearInterval(timers, simulationRef)
     IN /\ timers' = cleaned
        /\ simulationRef' = simulationRef
  /\ UNCHANGED <<sim, calc, mounted, massVars, waypoints, rng, kbdVars>>

\* whether togglePlayPause logs the two start-of-run entries
LogsStart == attackPhase = "INACTIVE" /\ ~isPlaying

togglePlayPause ==
  /\ sim = "inject" /\ mounted
  /\ attackPhase # "COMPLETED"
  /\ LogsStart => CountMsg(digitalFootprints, "initiated") < MaxStarts
  /\ digitalFootprints' =
       IF LogsStart
       THEN addFootprint(digitalFootprints,
                         <<Footprint("AUTH", "initiated", 0),
                           Footprint("AUTH", "mission loaded", Len(waypoints))>>)
       ELSE digitalFootprints
  /\ isPlaying' = ~isPlaying
  /\ UNCHANGED <<sim, calc, mounted, massVars, attackPhase, status, finalPositions, simulationTime,
                 drone, reportedDrone, waypoints, currentWaypointIdx, reportedWaypointIdx,
                 dronePath, reportedPath, dataPackets, latestDronePos, latestReportedPos, rng,
                 kbdVars>>
  /\ RenderEffects

\* runSimulationTick of the interval t.  setSimulationTime comes first, so
\* React runs the updaters of setDrone and setReportedDrone during the render:
\* the rest of the callback reads the refs as the previous tick left them.
InjNewTime(t) == t.simulationTime + SIMULATION_SPEED

InjNextPhase(t) == PhaseForTime(InjNewTime(t), t.attackPhase)

\* mutant: the entries are logged in every tick of the phase
TransitionFootprints_everyTick(t) ==
  LET nextPhase == InjNextPhase(t)
  IN CASE nextPhase = "ATTACK_INJECT" -> <<Footprint("ATTACK", "intrusion", 0)>>
       [] nextPhase = "HIJACKED" -> <<Footprint("SPOOF", "override ack", 0)>>
       [] nextPhase = "COMPLETED" ->
            <<Footprint("ATTACK", "actual location", 0),
              Footprint("SPOOF", "fake arrived", t.reportedWaypointIdx)>>
       [] OTHER -> <<>>

\* the entries logged by the phase transition
TransitionFootprints(t) ==
  LET nextPhase == InjNextPhase(t)
  IN IF nextPhase = t.attackPhase THEN <<>>
     ELSE CASE nextPhase = "ATTACK_INJECT" -> <<Footprint("ATTACK", "intrusion", 0)>>
            [] nextPhase = "HIJACKED" -> <<Footprint("SPOOF", "override ack", 0)>>
            [] nextPhase = "COMPLETED" ->
                 <<Footprint("ATTACK", "actual location", 0),
                   Footprint("SPOOF", "fake arrived", t.reportedWaypointIdx)>>
            [] OTHER -> <<>>

TransitionStatus(t) ==
  LET nextPhase == InjNextPhase(t)
  IN IF nextPhase = t.attackPhase THEN status
     ELSE CASE nextPhase = "ATTACK_INJECT" -> "Phase 2"
            [] nextPhase = "HIJACKED" -> "Phase 3"
            [] nextPhase = "COMPLETED" -> "Attack Complete"
            [] OTHER -> status

\* step 3: the telemetry entry of every full second
TelemetryFootprints(t) ==
  LET nextPhase == InjNextPhase(t)
  IN IF InjNewTime(t) % 1000 < SIMULATION_SPEED
     THEN (IF nextPhase = "NORMAL_FLIGHT"
           THEN <<Footprint("AUTH", "telemetry", t.currentWaypointIdx + 1)>>
           ELSE IF AtLeastHijacked(nextPhase)
           THEN <<Footprint("SPOOF", "fake telemetry", t.reportedWaypointIdx + 1)>>
           ELSE <<>>)
     ELSE <<>>

\* step 4
SpawnsPacket(t) == InjNextPhase(t) = "ATTACK_INJECT" /\ InjNewTime(t) % 200 < SIMULATION_SPEED

\* whether the reported position is jittered in this tick
Jittered(t) == AtLeastHijacked(InjNextPhase(t))

\* the updater of setReportedDrone
ReportedMoves(t) == t.reportedWaypointIdx < Len(waypoints)

ReportedTarget(t) == waypoints[t.reportedWaypointIdx + 1]

\* moveTowards returns the waypoint object itself
ReportedSnaps(t) ==
  DistSq(reportedDrone, ReportedTarget(t)) < INJ_DRONE_SPEED * INJ_DRONE_SPEED

ReportedNewPos(t) ==
  LET moved == moveTowards(reportedDrone, ReportedTarget(t), INJ_DRONE_SPEED)
      j == Jitter(rng, InjNewTime(t))
  IN IF Jittered(t) THEN [x |-> moved.x + j.x, y |-> moved.y + j.y] ELSE moved

\* the jitter is added in place: after a snap it moves the waypoint
WaypointsAfterTick(t) ==
  IF ReportedMoves(t) /\ ReportedSnaps(t) /\ Jittered(t)
  THEN [waypoints EXCEPT ![t.reportedWaypointIdx + 1] = ReportedNewPos(t)]
  ELSE waypoints

\* mutant: the distance to the waypoint is not tested
ReportedArrived_anywhere(t) == ReportedMoves(t)

ReportedArrived(t) ==
  /\ ReportedMoves(t)
  /\ DistSq(ReportedNewPos(t), WaypointsAfterTick(t)[t.reportedWaypointIdx + 1])
       < INJ_DRONE_SPEED * INJ_DRONE_SPEED

ReportedFootprints(t) ==
  IF /\ ReportedArrived(t) /\ Jittered(t)
     /\ t.reportedWaypointIdx + 1 < Len(waypoints)
  THEN <<Footprint("SPOOF", "fake arrived next", t.reportedWaypointIdx + 1)>>
  ELSE <<>>

\* the updater of setDrone
FollowsWaypoints(t) == BelowHijacked(InjNextPhase(t))

ActualMoves(t) == FollowsWaypoints(t) => t.currentWaypointIdx < Len(waypoints)

ActualNewPos(t) ==
  IF FollowsWaypoints(t)
  THEN moveTowards(drone, waypoints[t.currentWaypointIdx + 1], INJ_DRONE_SPEED)
  ELSE moveTowards(drone, maliciousTarget, INJ_DRONE_SPEED)

ActualArrived(t) ==
  /\ FollowsWaypoints(t) /\ ActualMoves(t)
  /\ DistSq(ActualNewPos(t), waypoints[t.currentWaypointIdx + 1])
       < INJ_DRONE_SPEED * INJ_DRONE_SPEED

\* the tick that completes the run returns before the movement
\* lines 452-506: the packet, the reported track and the true track
TickMovement(t) ==
  LET nextPhase == InjNextPhase(t)
  IN /\ dataPackets' =
          IF nextPhase # t.attackPhase /\ nextPhase = "HIJACKED" THEN <<>>
          ELSE IF SpawnsPacket(t)
          THEN Append(dataPackets, [id |-> InjNewTime(t), targetX |-> latestDronePos.x,
                                    targetY |-> latestDronePos.y])
          ELSE dataPackets
     /\ IF ActualMoves(t)
        THEN /\ drone' = ActualNewPos(t)
             /\ dronePath' = Append(dronePath, ActualNewPos(t))
             /\ latestDronePos' = ActualNewPos(t)
        ELSE UNCHANGED <<drone, dronePath, latestDronePos>>
     /\ currentWaypointIdx' =
          IF ActualArrived(t) THEN currentWaypointIdx + 1 ELSE currentWaypointIdx
     /\ IF ReportedMoves(t)
        THEN /\ reportedDrone' = ReportedNewPos(t)
             /\ reportedPath' = Append(reportedPath, ReportedNewPos(t))
             /\ latestReportedPos' = ReportedNewPos(t)
        ELSE UNCHANGED <<reportedDrone, reportedPath, latestReportedPos>>
     /\ waypoints' = WaypointsAfterTick(t)
     /\ reportedWaypointIdx' =
          IF ReportedArrived(t) THEN t.reportedWaypointIdx + 1 ELSE reportedWaypointIdx

\* mutant: setIsPlaying(false) is missing
CompletedCase_playing(t) ==
  /\ simulationTime' = InjNewTime(t)
  /\ attackPhase' = "COMPLETED"
  /\ status' = TransitionStatus(t)
  /\ digitalFootprints' = addFootprint(digitalFootprints, TransitionFootprints(t))
  /\ isPlaying' = isPlaying
  /\ finalPositions' =
       IF t.attackPhase # "COMPLETED"
       THEN <<[id |-> "actual", x |-> latestDronePos.x, y |-> latestDronePos.y],
              [id |-> "reported", x |-> latestReportedPos.x, y |-> latestReportedPos.y]>>
       ELSE finalPositions

\* what the COMPLETED case of the switch sets
CompletedCase(t) ==
  /\ simulationTime' = InjNewTime(t)
  /\ attackPhase' = "COMPLETED"
  /\ status' = TransitionStatus(t)
  /\ digitalFootprints' = addFootprint(digitalFootprints, TransitionFootprints(t))
  /\ isPlaying' = IF t.attackPhase # "COMPLETED" THEN FALSE ELSE isPlaying
  /\ finalPositions' =
       IF t.attackPhase # "COMPLETED"
       THEN <<[id |-> "actual", x |-> latestDronePos.x, y |-> latestDronePos.y],
              [id |-> "reported", x |-> latestReportedPos.x, y |-> latestReportedPos.y]>>
       ELSE finalPositions

\* mutant: the return before the movement code is missing
CompletingTick_moving(t) == CompletedCase(t) /\ TickMovement(t)

\* the tick whose next phase is COMPLETED returns before it moves anything
CompletingTick(t) ==
  /\ CompletedCase(t)
  /\ UNCHANGED <<drone, reportedDrone, waypoints, currentWaypointIdx, reportedWaypointIdx,
                 dronePath, reportedPath, dataPackets, latestDronePos, latestReportedPos>>

MovingTick(t) ==
  LET nextPhase == InjNextPhase(t)
  IN /\ simulationTime' = InjNewTime(t)
     /\ attackPhase' = IF nextPhase # t.attackPhase THEN nextPhase ELSE attackPhase
     /\ status' = TransitionStatus(t)
     /\ digitalFootprints' = addFootprint(digitalFootprints,
                               TransitionFootprints(t) \o TelemetryFootprints(t)
                                 \o ReportedFootprints(t))
     /\ TickMovement(t)
     /\ UNCHANGED <<isPlaying, finalPositions>>

InjRunSimulationTick ==
  /\ sim = "inject" /\ mounted
  /\ \E t \in timers :
       /\ SpawnsPacket(t) => Len(dataPackets) < MaxPackets
       /\ IF InjNextPhase(t) = "COMPLETED" THEN CompletingTick(t) ELSE MovingTick(t)
  /\ UNCHANGED <<sim, calc, mounted, massVars, rng, kbdVars>>
  /\ RenderEffects

\* the timeout of spawnDataPacket: the oldest packet is removed
packetTimeout ==
  /\ sim = "inject" /\ mounted
  /\ dataPackets # <<>>
  /\ dataPackets' = Tail(dataPackets)
  /\ UNCHANGED <<sim, calc, mounted, massVars, commonVars, isPlaying, simulationTime, drone,
                 reportedDrone, waypoints, currentWaypointIdx, reportedWaypointIdx, dronePath,
                 reportedPath, latestDronePos, latestReportedPos, rng, kbdVars>>

\* unmounting: the cleanup of the interval effect runs and the state of the
\* component is discarded
InjUnmount ==
  /\ sim = "inject" /\ mounted
  /\ mounted' = FALSE
  /\ timers' = clearInterval(timers, simulationRef)
  /\ simulationRef' = 0
  /\ isPlaying' = FALSE /\ simulationTime' = 0
  /\ attackPhase' = "INACTIVE" /\ status' = ""
  /\ drone' = initialDroneState /\ reportedDrone' = initialDroneState
  /\ waypoints' = initialWaypoints
  /\ currentWaypointIdx' = 0 /\ reportedWaypointIdx' = 0
  /\ dronePath' = <<>> /\ reportedPath' = <<>> /\ dataPackets' = <<>>
  /\ finalPositions' = <<>> /\ digitalFootprints' = <<>>
  /\ latestDronePos' = initialDroneState /\ latestReportedPos' = initialDroneState
  /\ UNCHANGED <<sim, calc, massVars, rng, kbdVars>>

InjNext ==
  \/ togglePlayPause
  \/ InjResetSimulation
  \/ InjRunSimulationTick
  \/ packetTimeout
  \/ InjUnmount

SpecInj == InjInit /\ [][InjNext]_vars

(***************************************************************************)
(* DroneSimulation: the keyboard driven scenario.  handleLog is a new      *)
(* function in every render, so updateGame is too and the interval effect  *)
(* replaces the interval after every render: the callback that fires       *)
(* always holds the keys of the latest render.  Updater functions run      *)
(* once, as in a production build.                                         *)
(***************************************************************************)
KbdWorld == [width |-> 8000, height |-> 6000]
droneSize == [width |-> 400, height |-> 400]
KBD_SPEED == 50
initialDrone ==
  [x |-> KbdWorld.width \div 2 - droneSize.width \div 2,
   y |-> KbdWorld.height - droneSize.height - 200,
   isSpoofed |-> FALSE, isRedirecting |-> FALSE]
dangerZone == [x |-> KbdWorld.width \div 2, y |-> 1200, radius |-> 1000, fenceRadius |-> 1500]
kbdSafeZone == [x |-> 600, y |-> 600, size |-> 1000]
initialState ==
  [drone |-> initialDrone,
   statusMessage |-> "Use WASD or Arrow Keys to fly the drone."]

DangerMsg == "DANGER! Geofence breached. Initiating redirection."
LandedMsg == "System Breach! Drone landed in Safe Zone."
ResetMsg == "Simulation Reset."
LogLimit == 5

\* the keys the pilot uses, and where: "a" along the start row, "w" and "s"
\* in the start column and in the column that passes the fence on its left
KeysExplored == {"w", "a", "s"}
FlightColumns == {initialDrone.x, dangerZone.x - dangerZone.fenceRadius}
KeyOffered(k) ==
  IF k = "a" THEN state.drone.y = initialDrone.y
  ELSE state.drone.x \in FlightColumns

Min(a, b) == IF a < b THEN a ELSE b
Max(a, b) == IF a > b THEN a ELSE b

\* mutant: the rectangle is returned as it is
checkBounds_unclamped(rect, bounds) == rect

checkBounds(rect, bounds) ==
  [rect EXCEPT !.x = Max(0, Min(rect.x, bounds.width - droneSize.width)),
               !.y = Max(0, Min(rect.y, bounds.height - droneSize.height))]

Up(ks) == "w" \in ks \/ "ArrowUp" \in ks
Down(ks) == "s" \in ks \/ "ArrowDown" \in ks
Left(ks) == "a" \in ks \/ "ArrowLeft" \in ks
Right(ks) == "d" \in ks \/ "ArrowRight" \in ks

moveDrone(dr, ks) ==
  LET y1 == IF Up(ks) THEN dr.y - KBD_SPEED ELSE dr.y
      y2 == IF Down(ks) THEN y1 + KBD_SPEED ELSE y1
      x1 == IF Left(ks) THEN dr.x - KBD_SPEED ELSE dr.x
      x2 == IF Right(ks) THEN x1 + KBD_SPEED ELSE x1
  IN checkBounds([dr EXCEPT !.x = x2, !.y = y2], KbdWorld)

\* mutant: the panel keeps every entry
handleLog_unbounded(log, message) == <<message>> \o log

handleLog(log, message) ==
  LET all == <<message>> \o log
  IN SubSeq(all, 1, Min(Len(all), LogLimit))

RedirectTarget == [x |-> kbdSafeZone.x + 200, y |-> kbdSafeZone.y + 200]

\* mutant: the drone is never close enough to land
Arrived_never(dr) == FALSE

\* distToSafe < drone.speed
Arrived(dr) == DistSq(dr, RedirectTarget) < KBD_SPEED * KBD_SPEED

\* mutant: the redirected drone stays where it is
StepToSafe_still(dr) == dr

\* x += cos(angle) * speed, y += sin(angle) * speed
StepToSafe(dr) ==
  LET d == dist(dr, RedirectTarget)
  IN [dr EXCEPT !.x = dr.x + RoundDiv((RedirectTarget.x - dr.x) * KBD_SPEED, d),
                !.y = dr.y + RoundDiv((RedirectTarget.y - dr.y) * KBD_SPEED, d)]

\* distToDanger < dangerZone.fenceRadius, measured from the drone's corner
Breached(dr) == DistSq(dr, dangerZone) < dangerZone.fenceRadius * dangerZone.fenceRadius

\* mutant: the landing clears the spoofed flag
UpdatedState_unspoofed(prev, ks) ==
  LET dr == prev.drone IN
  IF dr.isRedirecting THEN
    IF Arrived(dr)
    THEN [drone |-> [dr EXCEPT !.x = RedirectTarget.x, !.y = RedirectTarget.y,
                               !.isRedirecting = FALSE, !.isSpoofed = FALSE],
          statusMessage |-> LandedMsg]
    ELSE [prev EXCEPT !.drone = StepToSafe(dr)]
  ELSE IF ~dr.isSpoofed THEN
    LET moved == moveDrone(dr, ks) IN
    IF Breached(moved)
    THEN [drone |-> [moved EXCEPT !.isSpoofed = TRUE, !.isRedirecting = TRUE],
          statusMessage |-> "DANGER! Geofence breached. Spoofing signal..."]
    ELSE [prev EXCEPT !.drone = moved]
  ELSE prev

\* the updater of updateGame: the new state and the messages it logs
UpdatedState(prev, ks) ==
  LET dr == prev.drone IN
  IF dr.isRedirecting THEN
    IF Arrived(dr)
    THEN [drone |-> [dr EXCEPT !.x = RedirectTarget.x, !.y = RedirectTarget.y,
                               !.isRedirecting = FALSE, !.isSpoofed = TRUE],
          statusMessage |-> LandedMsg]
    ELSE [prev EXCEPT !.drone = StepToSafe(dr)]
  ELSE IF ~dr.isSpoofed THEN
    LET moved == moveDrone(dr, ks) IN
    IF Breached(moved)
    THEN [drone |-> [moved EXCEPT !.isSpoofed = TRUE, !.isRedirecting = TRUE],
          statusMessage |-> "DANGER! Geofence breached. Spoofing signal..."]
    ELSE [prev EXCEPT !.drone = moved]
  ELSE prev

\* mutant: moveDrone writes x and y into the object it was given
HeldAfterMove_inPlace(held) == held

\* moveDrone returns checkBounds({ ...drone, x, y }): a new object, never the
\* one state.drone was
HeldAfterMove(held) == FALSE

\* what updateGame does to the module-level object: 'let { drone } =
\* { ...prevState }' is the object of the previous state itself, the
\* redirection branch assigns to its fields, the keyboard branch replaces it
\* by moveDrone's result and sets the flags on that
ObjectAfter(obj, prev, ks) ==
  IF prev.drone.isRedirecting
  THEN IF obj.held THEN [obj EXCEPT !.drone = UpdatedState(prev, ks).drone] ELSE obj
  ELSE IF ~prev.drone.isSpoofed
       THEN IF obj.held /\ HeldAfterMove(obj.held)
            THEN [obj EXCEPT !.drone = UpdatedState(prev, ks).drone]
            ELSE [obj EXCEPT !.held = FALSE]
       ELSE obj

UpdateLogged(prev, ks) ==
  IF prev.drone.isRedirecting
  THEN IF Arrived(prev.drone) THEN <<LandedMsg>> ELSE <<>>
  ELSE IF ~prev.drone.isSpoofed /\ Breached(moveDrone(prev.drone, ks))
       THEN <<DangerMsg>> ELSE <<>>

\* useEffect [updateGame]: the cleanup clears the interval of the last
\* render, then a new one is created with this render's keys
GameLoopEffect ==
  LET live == clearInterval(timers, gameRef)
      h == CHOOSE n \in 1..MaxHandles : n \notin {t.h : t \in live}
             /\ \A m \in 1..(n - 1) : m \in {t.h : t \in live}
  IN /\ timers' = live \cup {[h |-> h, keys |-> keys']}
     /\ gameRef' = h

MassUnused ==
  /\ attackPhase = "INACTIVE" /\ status = "" /\ digitalFootprints = <<>>
  /\ finalPositions = "null" /\ simulationRef = 0
  /\ drones = <<>> /\ droneCount = 0

KbdInit ==
  /\ sim = "keyboard"
  /\ calc = NoCall
  /\ mounted = TRUE
  /\ MassUnused
  /\ InjUnused
  /\ state = initialState
  /\ keys = {}
  /\ logs = <<>>
  /\ gameRef = 1
  /\ timers = {[h |-> 1, keys |-> {}]}
  /\ initialObject = [drone |-> initialDrone, held |-> TRUE]

\* handleDown: setKeys(prev => new Set(prev).add(e.key))
keydown ==
  /\ sim = "keyboard" /\ mounted
  /\ \E k \in KeysExplored \ keys :
       /\ KeyOffered(k)
       /\ Cardinality(keys) < MaxKeysHeld
       /\ keys' = keys \cup {k}
  /\ UNCHANGED <<state, logs, initialObject>>
  /\ GameLoopEffect
  /\ UNCHANGED <<sim, calc, mounted, attackPhase, status, digitalFootprints, finalPositions,
                 simulationRef, massVars, injVars>>

\* handleUp: setKeys(prev => { next.delete(e.key) })
keyup ==
  /\ sim = "keyboard" /\ mounted
  /\ \E k \in keys : keys' = keys \ {k}
  /\ UNCHANGED <<state, logs, initialObject>>
  /\ GameLoopEffect
  /\ UNCHANGED <<sim, calc, mounted, attackPhase, status, digitalFootprints, finalPositions,
                 simulationRef, massVars, injVars>>

\* the interval callback updateGame
updateGame ==
  /\ sim = "keyboard" /\ mounted
  /\ \E t \in timers :
       /\ state' = UpdatedState(state, t.keys)
       /\ logs' = IF UpdateLogged(state, t.keys) = <<>> THEN logs
                  ELSE handleLog(logs, UpdateLogged(state, t.keys)[1])
       /\ initialObject' = ObjectAfter(initialObject, state, t.keys)
  /\ UNCHANGED keys
  /\ GameLoopEffect
  /\ UNCHANGED <<sim, calc, mounted, attackPhase, status, digitalFootprints, finalPositions,
                 simulationRef, massVars, injVars>>

\* setState(initialState): the state is the module-level object again, with
\* whatever its drone holds by now
resetGame ==
  /\ sim = "keyboard" /\ mounted
  /\ state' = [initialState EXCEPT !.drone = initialObject.drone]
  /\ initialObject' = [initialObject EXCEPT !.held = TRUE]
  /\ logs' = handleLog(logs, ResetMsg)
  /\ UNCHANGED keys
  /\ GameLoopEffect
  /\ UNCHANGED <<sim, calc, mounted, attackPhase, status, digitalFootprints, finalPositions,
                 simulationRef, massVars, injVars>>

\* leaving the page: the effect's cleanup clears the interval
KbdUnmount ==
  /\ sim = "keyboard" /\ mounted
  /\ mounted' = FALSE
  /\ timers' = {}
  /\ state' = initialState /\ keys' = {} /\ logs' = <<>> /\ gameRef' = 0
  /\ initialObject' = [initialObject EXCEPT !.held = FALSE]
  /\ UNCHANGED <<sim, calc, attackPhase, status, digitalFootprints, finalPositions,
                 simulationRef, massVars, injVars>>

KbdNext ==
  \/ keydown
  \/ keyup
  \/ updateGame
  \/ resetGame
  \/ KbdUnmount

SpecKbd == KbdInit /\ [][KbdNext]_vars

\* a step of updateGame on a redirected drone: the only steps that move it
\* or land it, and leave it spoofed
RedirectStep ==
  /\ state.drone.isRedirecting
  /\ state'.drone.isSpoofed /\ state'.drone # state.drone

\* RedirectStep picks out exactly the steps of updateGame on a redirected drone
RedirectStepIsTick ==
  [][(sim = "keyboard" /\ state.drone.isRedirecting) => (RedirectStep <=> updateGame)]_vars

\* the interval is live and its callback will move the redirected drone
RedirectEnabled ==
  sim = "keyboard" /\ mounted /\ timers # {} /\ state.drone.isRedirecting

\* the callback of the interval runs on a redirected drone.  The step is told
\* by what it does to the state; the first disjunct only says that some step
\* is possible, no step of the component has an empty status message
RedirectFires ==
  /\ RedirectEnabled
  /\ \/ state' = [state EXCEPT !.statusMessage = ""]
     \/ RedirectStep

\* the interval keeps calling updateGame: every render replaces the interval
\* by a new one, whose callback runs unless another render comes first
SpecKbdFair == SpecKbd /\ WF_state(RedirectFires)

\* the dashboard of useGameLoop
droneCenter(dr) == [x |-> dr.x + droneSize.width \div 2, y |-> dr.y + droneSize.height \div 2]

isInsideFence(dr) ==
  DistSq(droneCenter(dr), dangerZone) < dangerZone.fenceRadius * dangerZone.fenceRadius

isInsideSafeZone(dr) ==
  /\ dr.x > kbdSafeZone.x
  /\ dr.x < kbdSafeZone.x + kbdSafeZone.size - droneSize.width
  /\ dr.y > kbdSafeZone.y
  /\ dr.y < kbdSafeZone.y + kbdSafeZone.size - droneSize.height

dashboardState ==
  [inDanger |-> isInsideFence(state.drone), inSafe |-> isInsideSafeZone(state.drone)]

(***************************************************************************)
(* The application mounts one scenario at a time                           *)
(***************************************************************************)
Init == MassInit \/ InjInit \/ KbdInit

Next == MassNext \/ InjNext \/ KbdNext

Spec == Init /\ [][Next]_vars

(***************************************************************************)
(* The helper functions on their own: moveTowards and isPathBlocked are    *)
(* pure, so one call is an argument list and then the value returned.      *)
(***************************************************************************)
\* the speeds the two components pass to moveTowards
CalcSpeeds == {DRONE_SPEED, INJ_DRONE_SPEED}

\* coordinates around the speeds: closer than a step, a step away, far away
CalcCoords == {0, 9, 12, 15, 16, 20, 300, 4000}

CalcPoints == { [x |-> px, y |-> py] : px, py \in CalcCoords }

\* how far the ends of a segment lie from the circle's centre, per axis
CalcReach == {0, 100, 1000, 2000, 3000}

\* the tower, and a circle of radius 1 px at the same place
CalcCircles == {antiDroneTower, [antiDroneTower EXCEPT !.radius = 10]}

\* the corner from which isPathBlocked's start point f is (fx, fy) before the centre
CornerBefore(c, fx, fy) ==
  [x |-> c.x - fx - DRONE_SIZE_OFFSET, y |-> c.y - fy - DRONE_SIZE_OFFSET]

MoveCalls ==
  { [fn |-> "moveTowards", from |-> f, to |-> t, speed |-> sp, done |-> FALSE] :
      f \in CalcPoints, t \in CalcPoints, sp \in CalcSpeeds }

BlockCalls ==
  { [fn |-> "isPathBlocked", from |-> CornerBefore(c, k[1], k[2]),
     to |-> [x |-> c.x + m[1], y |-> c.y + m[2]], circle |-> c, done |-> FALSE] :
      k \in CalcReach \X CalcReach, m \in CalcReach \X CalcReach, c \in CalcCircles }

CalcInit ==
  /\ sim = "calc"
  /\ mounted = FALSE
  /\ MassUnused /\ InjUnused /\ KbdUnused /\ timers = {}
  /\ calc \in MoveCalls \cup BlockCalls

callMoveTowards ==
  /\ sim = "calc" /\ calc.fn = "moveTowards" /\ ~calc.done
  /\ calc' = [fn |-> calc.fn, from |-> calc.from, to |-> calc.to, speed |-> calc.speed,
              done |-> TRUE, returned |-> moveTowards(calc.from, calc.to, calc.speed)]
  /\ UNCHANGED <<sim, mounted, commonVars, massVars, injVars, kbdVars>>

callIsPathBlocked ==
  /\ sim = "calc" /\ calc.fn = "isPathBlocked" /\ ~calc.done
  /\ calc' = [fn |-> calc.fn, from |-> calc.from, to |-> calc.to, circle |-> calc.circle,
              done |-> TRUE, returned |-> isPathBlocked(calc.from, calc.to, calc.circle)]
  /\ UNCHANGED <<sim, mounted, commonVars, massVars, injVars, kbdVars>>

CalcNext ==
  \/ callMoveTowards
  \/ callIsPathBlocked

SpecCalc == CalcInit /\ [][CalcNext]_vars

(***************************************************************************)
(* Claims on the mass-redirection scenarios                                *)
(***************************************************************************)
StatusRank(st) == CASE st = "NORMAL" -> 0 [] st = "REDIRECTED" -> 1 [] st = "SAFE" -> 2

PhaseRank(ph) ==
  CASE ph = "INACTIVE" -> 0 [] ph = "NORMAL_FLIGHT" -> 1 [] ph = "REDIRECTING" -> 2
    [] ph = "SECURED" -> 3

NonNormal(ds) == { i \in DOMAIN ds : ds[i].status # "NORMAL" }
SafeOnes(ds) == { i \in DOMAIN ds : ds[i].status = "SAFE" }

\* entries of a log with the given type and drone id
RECURSIVE CountFor(_, _, _)
CountFor(log, type, id) ==
  IF log = <<>> THEN 0
  ELSE (IF log[1].type = type /\ log[1].n = id THEN 1 ELSE 0) + CountFor(Tail(log), type, id)

\* a step of runSimulationTick: the only steps that extend a path trail
TickStep ==
  /\ drones # <<>> /\ drones' # <<>>
  /\ Len(drones'[1].path) = Len(drones[1].path) + 1

\* TickStep picks out exactly the steps of runSimulationTick
TickStepIsTick == [][TickStep <=> runSimulationTick]_vars

\* an interval is live and its callback may run
TickEnabled ==
  /\ sim \in MassSims /\ mounted /\ timers # {}
  /\ \A i \in DOMAIN drones : Len(drones[i].path) <= MaxTicks

\* the callback of the interval runs.  The step is told by what it does to
\* the trails (TickStepIsTick); the first disjunct is one such step, so that
\* the enabling condition is TickEnabled and can be worked out without
\* computing a whole tick.
TickFires ==
  /\ TickEnabled /\ drones # <<>>
  /\ \/ drones' = [drones EXCEPT ![1].path = Append(@, Pt(drones[1]))]
     \/ TickStep

\* setInterval keeps calling the callback for as long as the interval lives
SpecMassFair == SpecMass /\ WF_drones(TickFires)

\* C1: in both variants no tick moves a drone's status backwards in
\* NORMAL -> REDIRECTED -> SAFE: every tick keeps the list of drones and
\* leaves each drone's status rank at least what it was.
C1_StatusMonotonic ==
  [][TickStep =>
       /\ DOMAIN drones' = DOMAIN drones
       /\ \A i \in DOMAIN drones :
            StatusRank(drones'[i].status) >= StatusRank(drones[i].status)]_vars

\* a drone has gone all the way to SAFE, and a tick has run on it since
C1_Witness ==
  /\ sim \in MassSims
  /\ \E i \in DOMAIN drones :
       /\ drones[i].status = "SAFE"
       /\ Len(drones[i].path) >= 3
       /\ InSafeZone(drones[i].path[Len(drones[i].path) - 1])

\* C2: between one reset and the next the phase only moves forward in
\* INACTIVE -> NORMAL_FLIGHT -> REDIRECTING -> SECURED; only
\* resetSimulation lowers it (to INACTIVE), until the component is unmounted.
C2_PhaseForward ==
  [][\/ PhaseRank(attackPhase') >= PhaseRank(attackPhase)
     \/ resetSimulation /\ attackPhase' = "INACTIVE"
     \/ ~mounted']_vars

\* a run has got to REDIRECTING
C2_Witness == sim \in MassSims /\ attackPhase = "REDIRECTING" /\ timers # {}

\* C3 (as claimed): the phase becomes REDIRECTING in the tick in which the
\* first drone leaves NORMAL, and it is never REDIRECTING while every drone
\* is NORMAL.
C3_RedirectingWithFirstDetection ==
  /\ [](sim \in MassSims /\ attackPhase = "REDIRECTING" => NonNormal(drones) # {})
  /\ [][TickStep /\ NonNormal(drones) = {} /\ NonNormal(drones') # {}
          => attackPhase' = "REDIRECTING"]_vars

\* C5 (as claimed): a tick of the timer of startSimulation that finds every
\* drone SAFE makes the phase SECURED, appends exactly one summary 'AUTH'
\* entry and cancels the timer.
C5_SecuredOnceAllSafe ==
  [][TickStep /\ drones # <<>> /\ SafeOnes(drones) = DOMAIN drones
       => /\ attackPhase' = "SECURED"
          /\ digitalFootprints' = Append(digitalFootprints,
                                         Footprint("AUTH", "all secured", droneCount))
          /\ timers' = {}]_vars

\* C8: a REDIRECTED drone becomes SAFE in exactly the tick in which its new
\* position is less than half the safe zone's size (60 px) from the centre of
\* the safe zone, and the log holds as many 'SPOOF' entries as there are SAFE
\* drones.
C8_SafeExactlyInZone ==
  /\ [](sim \in MassSims =>
          CountType(digitalFootprints, "SPOOF") = Cardinality(SafeOnes(drones)))
  /\ [][TickStep =>
          \A i \in DOMAIN drones :
            drones[i].status = "REDIRECTED" =>
              /\ (drones'[i].status = "SAFE") =
                   (4 * DistSq(drones'[i], safeZoneTarget) < safeZone.size * safeZone.size)
              /\ CountFor(digitalFootprints', "SPOOF", drones[i].id) =
                   (IF drones'[i].status = "SAFE" THEN 1 ELSE 0)]_vars

\* a drone has become SAFE, the step before it was outside the zone
C8_Witness ==
  /\ sim \in MassSims
  /\ \E i \in DOMAIN drones :
       /\ drones[i].status = "SAFE"
       /\ Len(drones[i].path) >= 2
       /\ ~InSafeZone(drones[i].path[Len(drones[i].path) - 1])
       /\ CountFor(digitalFootprints, "SPOOF", drones[i].id) = 1

\* C9: a NORMAL drone is detected in a tick exactly if its distance to the
\* tower centre is at most the fence radius (300 px) at that tick; it is then
\* REDIRECTED and the tick logs exactly one 'ATTACK' entry for it, and none
\* for a drone that stays NORMAL.
C9_DetectedAtFence ==
  [][TickStep =>
       \A i \in DOMAIN drones :
         drones[i].status = "NORMAL" =>
           LET inside == DistSq(drones[i], antiDroneTower) <=
                           antiDroneTower.detectionFenceRadius * antiDroneTower.detectionFenceRadius
           IN /\ drones'[i].status = (IF inside THEN "REDIRECTED" ELSE "NORMAL")
              /\ CountFor(digitalFootprints', "ATTACK", drones[i].id) =
                   CountFor(digitalFootprints, "ATTACK", drones[i].id) + (IF inside THEN 1 ELSE 0)]_vars

\* a drone was detected at a distance of exactly 300 px, the step before it
\* was outside the fence
C9_Witness ==
  /\ sim \in MassSims
  /\ \E i \in DOMAIN drones :
       LET n == Len(drones[i].path)
       IN /\ drones[i].status = "REDIRECTED"
          /\ n >= 3
          /\ DistSq(drones[i].path[n - 1], antiDroneTower) =
               antiDroneTower.detectionFenceRadius * antiDroneTower.detectionFenceRadius
          /\ DistSq(drones[i].path[n - 2], antiDroneTower) >
               antiDroneTower.detectionFenceRadius * antiDroneTower.detectionFenceRadius
          /\ CountFor(digitalFootprints, "ATTACK", drones[i].id) = 1

\* C10 (as claimed): a reset after several ticks of a run leaves, once the
\* component has settled, no drones, an empty log and phase INACTIVE.
C10_ResetEmpties ==
  [][attackPhase # "INACTIVE"
       /\ (\E i \in DOMAIN drones : Len(drones[i].path) >= 3)
       /\ resetSimulation
       => drones' = <<>> /\ digitalFootprints' = <<>> /\ attackPhase' = "INACTIVE"]_vars

(***************************************************************************)
(* Claims on all scenarios                                                 *)
(***************************************************************************)
Positions == <<drone, reportedDrone, dronePath, reportedPath, currentWaypointIdx,
               reportedWaypointIdx>>

\* C6: once the phase is terminal no step other than a reset (or leaving the
\* page) changes a position, a path trail or a waypoint index: in the
\* injection scenario the tick that makes the phase COMPLETED and every step
\* that leaves it COMPLETED keep both tracks, both trails and both indices;
\* in the redirection scenarios a step that leaves the phase SECURED keeps
\* the drones.
C6_TerminalHaltsMotion ==
  [][/\ sim = "inject" /\ attackPhase' = "COMPLETED" => UNCHANGED Positions
     /\ sim \in MassSims /\ attackPhase = "SECURED" /\ attackPhase' = "SECURED"
          => UNCHANGED drones]_vars

\* the injection run has completed after both tracks have moved, and its
\* timer is gone
C6_Witness ==
  /\ sim = "inject" /\ attackPhase = "COMPLETED" /\ timers = {}
  /\ Len(dronePath) > 1 /\ Len(reportedPath) > 1
  /\ drone = dronePath[Len(dronePath)]

\* the entries on top of the log since the last reset
RECURSIVE SinceReset(_)
SinceReset(log) ==
  IF log = <<>> \/ Head(log) = ResetMsg THEN <<>>
  ELSE <<Head(log)>> \o SinceReset(Tail(log))

Occurrences(log, message) == Cardinality({ i \in DOMAIN log : log[i] = message })

\* C7: a detection is logged exactly once for an entity that has left
\* NORMAL and not at all for one that has not: in the redirection scenarios
\* every drone has one 'ATTACK' entry if it is not NORMAL and none if it is,
\* and the log has no other 'ATTACK' entries; in the keyboard scenario the
\* log since the last reset holds the 'DANGER! Geofence breached' entry once
\* if the drone is spoofed and not at all if it is not.
C7_DetectedOnce ==
  /\ sim \in MassSims =>
       /\ CountType(digitalFootprints, "ATTACK") = Cardinality(NonNormal(drones))
       /\ \A i \in DOMAIN drones :
            CountFor(digitalFootprints, "ATTACK", drones[i].id) =
              (IF drones[i].status = "NORMAL" THEN 0 ELSE 1)
  /\ sim = "keyboard" =>
       Occurrences(SinceReset(logs), DangerMsg) = (IF state.drone.isSpoofed THEN 1 ELSE 0)

\* the keyboard drone was redirected and has landed, after a reset, and the
\* breach is in the log once
C7_Witness ==
  /\ sim = "keyboard"
  /\ state.drone.isSpoofed /\ ~state.drone.isRedirecting
  /\ Len(logs) >= 3 /\ logs[3] = ResetMsg
  /\ Occurrences(SinceReset(logs), DangerMsg) = 1

\* two drones of a redirection run have been detected, ticks apart
C7_WitnessMass ==
  /\ sim \in MassSims
  /\ Cardinality(NonNormal(drones)) = 2
  /\ CountType(digitalFootprints, "ATTACK") = 2
  /\ \E i \in DOMAIN drones : drones[i].status = "SAFE"

(***************************************************************************)
(* Claims on the timers                                                    *)
(***************************************************************************)
\* a run is under way: started and neither reset nor torn down since
Running ==
  /\ mounted
  /\ sim \in MassSims => attackPhase # "INACTIVE"
  /\ sim = "inject" => isPlaying

\* C11: in the redirection and injection scenarios a reset and a teardown
\* cancel every timer, and no timer is live while no run is under way, so no
\* tick callback can run between a reset or teardown and the next start.
C11_NoTickAfterReset ==
  /\ [](sim \in MassSims \cup {"inject"} /\ ~Running => timers = {})
  /\ [][(resetSimulation \/ unmount \/ InjResetSimulation \/ InjUnmount) => timers' = {}]_vars

\* a redirection run was started, its timer is remembered in simulationRef,
\* and a reset has cancelled it
C11_Witness ==
  /\ sim \in MassSims /\ mounted
  /\ simulationRef # 0 /\ attackPhase = "INACTIVE" /\ timers = {}

\* C12: at most one periodic timer is live in every state of every
\* scenario, and startSimulation takes effect only from phase INACTIVE.
C12_OneTimer ==
  /\ [](Cardinality(timers) <= 1)
  /\ [][startSimulation => attackPhase = "INACTIVE" /\ timers = {}]_vars

\* an injection run whose interval effect has replaced the timer many times
C12_Witness ==
  /\ sim = "inject" /\ isPlaying /\ simulationTime >= 10 * SIMULATION_SPEED
  /\ Cardinality(timers) = 1

(***************************************************************************)
(* Claims on the injection scenario                                        *)
(***************************************************************************)
\* the phase the claim assigns to a simulated time (ms)
PhaseOfTime(time) ==
  IF time <= 500 THEN "INACTIVE"
  ELSE IF time <= 4000 THEN "NORMAL_FLIGHT"
  ELSE IF time <= 7000 THEN "ATTACK_INJECT"
  ELSE IF time <= 12000 THEN "HIJACKED"
  ELSE "COMPLETED"

InjPhaseRank(ph) ==
  CASE ph = "INACTIVE" -> 0 [] ph = "NORMAL_FLIGHT" -> 1 [] ph = "ATTACK_INJECT" -> 2
    [] ph = "HIJACKED" -> 3 [] ph = "COMPLETED" -> 4

\* C13: in the injection scenario every tick adds exactly 50 ms to the
\* simulated time, the phase is always the one the thresholds 500, 4000,
\* 7000 and 12000 assign to the time, and a step keeps the phase or moves it
\* to the next one of INACTIVE, NORMAL_FLIGHT, ATTACK_INJECT, HIJACKED,
\* COMPLETED, unless it is a reset or the teardown.
C13_PhaseByTime ==
  /\ [](sim = "inject" => attackPhase = PhaseOfTime(simulationTime))
  /\ [][InjRunSimulationTick => simulationTime' = simulationTime + 50]_vars
  /\ [][sim = "inject" =>
          \/ InjPhaseRank(attackPhase') = InjPhaseRank(attackPhase)
          \/ InjPhaseRank(attackPhase') = InjPhaseRank(attackPhase) + 1
          \/ attackPhase' = "INACTIVE" /\ (InjResetSimulation \/ InjUnmount)]_vars

\* a run has gone through all phases: the first tick past 12000 ms
C13_Witness ==
  /\ sim = "inject" /\ attackPhase = "COMPLETED" /\ simulationTime = 12050
  /\ CountType(digitalFootprints, "SPOOF") >= 2

\* C14 (as claimed): a tick whose phase is INACTIVE, NORMAL_FLIGHT or
\* ATTACK_INJECT moves the true position one step toward the current
\* waypoint of the mission, and only a tick whose phase is HIJACKED moves it
\* one step toward the malicious target.
C14_TrueTrackFollowsMission ==
  [][InjRunSimulationTick /\ attackPhase' # "COMPLETED" =>
       drone' = IF attackPhase' = "HIJACKED"
                THEN moveTowards(drone, maliciousTarget, INJ_DRONE_SPEED)
                ELSE IF currentWaypointIdx < Len(waypoints)
                THEN moveTowards(drone, waypoints[currentWaypointIdx + 1], INJ_DRONE_SPEED)
                ELSE drone]_vars

\* C15 (as claimed): every moving tick moves the reported position one step
\* toward its current waypoint of the mission; the jitter is added to that
\* step in the ticks whose phase is HIJACKED and in no tick whose phase is
\* INACTIVE, NORMAL_FLIGHT or ATTACK_INJECT.
C15_JitterOnlyWhenHijacked ==
  [][InjRunSimulationTick /\ attackPhase' # "COMPLETED"
       /\ reportedWaypointIdx < Len(waypoints) =>
       LET plain == moveTowards(reportedDrone, waypoints[reportedWaypointIdx + 1],
                                INJ_DRONE_SPEED)
           j == Jitter(rng, simulationTime')
       IN reportedDrone' = IF attackPhase' = "HIJACKED"
                           THEN [x |-> plain.x + j.x, y |-> plain.y + j.y]
                           ELSE Pt(plain)]_vars

\* C16: in the injection scenario, whenever the phase is COMPLETED the run
\* is not playing, no timer is live, the log holds each of the two
\* completion entries once and there are two final-position markers; a step
\* from COMPLETED that is neither resetSimulation nor the teardown (such as
\* togglePlayPause) changes none of phase, playing flag, log, markers and
\* timers.
C16_CompletedHalts ==
  /\ [](sim = "inject" /\ attackPhase = "COMPLETED" =>
          /\ ~isPlaying /\ timers = {}
          /\ CountMsg(digitalFootprints, "actual location") = 1
          /\ CountMsg(digitalFootprints, "fake arrived") = 1
          /\ Len(finalPositions) = 2)
  /\ [][sim = "inject" /\ attackPhase = "COMPLETED"
          /\ ~(InjResetSimulation \/ InjUnmount) =>
          UNCHANGED <<attackPhase, isPlaying, digitalFootprints, finalPositions, timers>>]_vars

\* a completed run: the markers are the last positions of the two tracks
C16_Witness ==
  /\ sim = "inject" /\ attackPhase = "COMPLETED" /\ ~isPlaying
  /\ Len(finalPositions) = 2
  /\ finalPositions[1].x = drone.x /\ finalPositions[2].y = reportedDrone.y
  /\ CountMsg(digitalFootprints, "actual location") = 1

(***************************************************************************)
(* Claims on the log and the paths                                         *)
(***************************************************************************)
\* a step that is a reset or the teardown of one of the two scenarios
RunEnds == resetSimulation \/ unmount \/ InjResetSimulation \/ InjUnmount

IsPrefix(a, b) == Len(a) <= Len(b) /\ SubSeq(b, 1, Len(a)) = a

\* C17: in the redirection and injection scenarios the log is append-only
\* during a run: a step that starts in a run (redirection: phase not
\* INACTIVE; injection: any state) and is neither a reset nor the teardown
\* keeps the log as a prefix of the new log; and only a reset or the
\* teardown turns a non-empty log into an empty one.
C17_LogAppendOnly ==
  /\ [][(/\ (sim \in MassSims /\ attackPhase # "INACTIVE") \/ sim = "inject"
         /\ ~RunEnds)
          => IsPrefix(digitalFootprints, digitalFootprints')]_vars
  /\ [][(/\ sim \in MassSims \cup {"inject"}
         /\ digitalFootprints # <<>>
         /\ digitalFootprints' = <<>>)
          => RunEnds]_vars

\* a redirection run whose ticks have added detection and capture entries
\* after the two entries of the start
C17_Witness ==
  /\ sim \in MassSims /\ attackPhase # "INACTIVE"
  /\ Len(digitalFootprints) >= 5
  /\ digitalFootprints[2].type = "WARN"
  /\ digitalFootprints[Len(digitalFootprints)].type = "SPOOF"

\* C18: in the redirection scenarios every tick appends to each drone's path
\* exactly one element, the drone's new position, and keeps the earlier
\* elements; a step that does not lengthen the first path by one keeps each
\* path or creates the drone afresh with a path of length 1 (so the length
\* is 1 plus the number of ticks since creation); the last element is
\* always the drone's position.
C18_PathAppendOnly ==
  /\ [](sim \in MassSims =>
          \A i \in DOMAIN drones :
            /\ Len(drones[i].path) >= 1
            /\ drones[i].path[Len(drones[i].path)] = Pt(drones[i]))
  /\ [][runSimulationTick =>
          /\ DOMAIN drones' = DOMAIN drones
          /\ \A i \in DOMAIN drones :
               drones'[i].path = Append(drones[i].path, Pt(drones'[i]))]_vars
  /\ [][(sim \in MassSims /\ ~TickStep) =>
          \A i \in DOMAIN drones' :
            \/ Len(drones'[i].path) = 1
            \/ i \in DOMAIN drones /\ drones'[i].path = drones[i].path]_vars

\* two drones, many ticks after their creation, one of them on a detour
C18_Witness ==
  /\ sim = "detour" /\ Len(drones) = 2
  /\ Len(drones[1].path) >= 100
  /\ Len(drones[2].path) = Len(drones[1].path)
  /\ \E i \in DOMAIN drones : drones[i].navTarget \notin {"null", "safe"}

(***************************************************************************)
(* Claims on the helper functions                                          *)
(***************************************************************************)
MoveReturned == calc.fn = "moveTowards" /\ calc.done

\* r is `from` moved by `speed` on the ray to `to`, to the precision of the
\* tenth-of-a-pixel grid: the right length, the right side, on the line
Advanced(from, to, speed, r) ==
  LET ux == r.x - from.x
      uy == r.y - from.y
      dx == to.x - from.x
      dy == to.y - from.y
      len2 == ux * ux + uy * uy
  IN /\ (speed - 1) * (speed - 1) <= len2 /\ len2 <= (speed + 2) * (speed + 2)
     /\ ux * dx + uy * dy > 0
     /\ ux * dx + uy * dy <= dx * dx + dy * dy
     /\ Abs(ux * dy - uy * dx) <= Abs(dx) + Abs(dy)

\* C19: moveTowards returns exactly `to` whenever the distance is below the
\* speed, from = to included (nothing is divided there); in every other case
\* it returns `from` advanced by `speed` in the direction of `to`, never
\* beyond it.
C19_MoveTowards ==
  MoveReturned =>
    IF DistSq(calc.from, calc.to) < calc.speed * calc.speed
    THEN calc.returned = calc.to
    ELSE Advanced(calc.from, calc.to, calc.speed, calc.returned)

\* a call with from = to has returned, and so has one a full step away
C19_Witness ==
  /\ MoveReturned /\ calc.from = calc.to /\ calc.returned = calc.to
  /\ calc.speed = DRONE_SPEED

BlockReturned == calc.fn = "isPathBlocked" /\ calc.done

\* the start point the function tests: the centre of the drone's box
SegmentStart(from) == [x |-> from.x + DRONE_SIZE_OFFSET, y |-> from.y + DRONE_SIZE_OFFSET]

\* c lies on the segment from f to t (a single point when f = t)
ThroughCentre(f, t, c) ==
  /\ (t.x - f.x) * (c.y - f.y) = (t.y - f.y) * (c.x - f.x)
  /\ (c.x - f.x) * (c.x - t.x) <= 0
  /\ (c.y - f.y) * (c.y - t.y) <= 0

\* C20: isPathBlocked returns true for every segment that passes through
\* the circle's centre, whatever the radius and however short the segment.
C20_BlockedThroughCentre ==
  BlockReturned /\ ThroughCentre(SegmentStart(calc.from), calc.to, calc.circle)
    => calc.returned = TRUE

(***************************************************************************)
(* Claims on the injection scenario: reset, waypoints, log, pause          *)
(***************************************************************************)
\* what resetSimulation leaves behind
FreshScenario ==
  /\ ~isPlaying /\ simulationTime = 0 /\ attackPhase = "INACTIVE"
  /\ drone = [x |-> 500, y |-> 1000] /\ reportedDrone = [x |-> 500, y |-> 1000]
  /\ currentWaypointIdx = 0 /\ reportedWaypointIdx = 0
  /\ digitalFootprints = <<>> /\ finalPositions = <<>>
  /\ dronePath = <<drone>> /\ reportedPath = <<reportedDrone>>
  /\ latestDronePos = drone /\ latestReportedPos = reportedDrone
  /\ dataPackets = <<>> /\ timers = {}
  /\ waypoints = initialWaypoints

\* C21: resetSimulation, in whatever state it is invoked, leaves the
\* scenario reinitialised: not playing, time 0, phase INACTIVE, both tracks
\* at (50,100), both waypoint indices 0, log and markers empty, no timer and
\* the mission list as it was loaded; a reset of a reinitialised scenario
\* changes nothing.
C21_ResetReinitialises ==
  /\ [][InjResetSimulation => FreshScenario']_vars
  /\ [][(InjResetSimulation /\ FreshScenario) => UNCHANGED vars]_vars

\* a run that was started has been reset
C21_Witness ==
  /\ sim = "inject" /\ mounted /\ FreshScenario
  /\ status = "Simulation reset" /\ simulationRef # 0

(***************************************************************************)
(* Claims on the redirection engine: destinations and detours              *)
(***************************************************************************)
OnOrInsideFence(dr) ==
  DistSq(dr, antiDroneTower)
    <= antiDroneTower.detectionFenceRadius * antiDroneTower.detectionFenceRadius

\* the drone is NORMAL once the detection check of the tick has run
StillNormal(dr) == dr.status = "NORMAL" /\ ~OnOrInsideFence(dr)

TargetZoneCentre == [x |-> 8500, y |-> 3250]
SafeZoneCentre == [x |-> 5000, y |-> 6000]
LeftNode == [x |-> 3000, y |-> 3250]
RightNode == [x |-> 7000, y |-> 3250]

NavName(p) ==
  CASE p = LeftNode -> "node0" [] p = RightNode -> "node1" [] p = SafeZoneCentre -> "safe"

\* the destination the spec names for a drone that is no longer NORMAL,
\* given the navTarget it holds when the destination is selected
RedirectDestination(nav) ==
  CASE nav = "node0" -> LeftNode [] nav = "node1" -> RightNode [] OTHER -> SafeZoneCentre

\* C22: in a tick a drone that is NORMAL after the detection check steps
\* toward the centre of the target zone; every other drone, the one detected
\* in this very tick included, steps toward its navTarget when it has one
\* (one of the two nodes or the safe-zone centre) and toward the safe-zone
\* centre otherwise, and so never toward the target zone.
C22_Destination ==
  [][TickStep =>
       \A i \in DOMAIN drones :
         LET dr == drones[i]
             new == Pt(drones'[i])
         IN IF StillNormal(dr)
            THEN new = moveTowards(Pt(dr), TargetZoneCentre, DRONE_SPEED)
            ELSE /\ new # moveTowards(Pt(dr), TargetZoneCentre, DRONE_SPEED)
                 /\ IF sim = "plain"
                    THEN new = moveTowards(Pt(dr), SafeZoneCentre, DRONE_SPEED)
                    ELSE IF dr.status = "NORMAL"
                    THEN \E d \in {LeftNode, RightNode, SafeZoneCentre} :
                           /\ new = moveTowards(Pt(dr), d, DRONE_SPEED)
                           /\ drones'[i].navTarget \in {NavName(d), "safe"}
                    ELSE new = moveTowards(Pt(dr), RedirectDestination(dr.navTarget),
                                           DRONE_SPEED)]_vars

\* one drone has just been detected and has made its first step away, while
\* the other one is still on its way to the target zone
C22_Witness ==
  /\ sim = "detour" /\ Len(drones) = 2
  /\ \E i, j \in DOMAIN drones :
       /\ drones[i].status = "REDIRECTED" /\ drones[i].navTarget \in {"node0", "node1"}
       /\ LET n == Len(drones[i].path)
          IN /\ n >= 2 /\ OnOrInsideFence(drones[i].path[n - 1])
             /\ (n >= 3 => ~OnOrInsideFence(drones[i].path[n - 2]))
       /\ drones[j].status = "NORMAL"

\* the 'Path blocked' entries of drone id
RECURSIVE BlockedEntries(_, _)
BlockedEntries(log, id) ==
  IF log = <<>> THEN 0
  ELSE (IF log[1].msg = "blocked" /\ log[1].n = id THEN 1 ELSE 0)
         + BlockedEntries(Tail(log), id)

\* the flanking node nearer to the drone, the right one on a tie
NearerNode(dr) == IF DistSq(dr, LeftNode) < DistSq(dr, RightNode) THEN "node0" ELSE "node1"

\* C23: in the detour variant the detour is decided in the tick in which a
\* drone goes from NORMAL to REDIRECTED and in no other: there, a blocked
\* path to the safe-zone centre gives the nearer flanking node as navTarget
\* and one 'Path blocked' entry, a free path gives the safe-zone centre and
\* no entry; in every other tick the drone gets no node as navTarget and no
\* 'Path blocked' entry, so the log never holds two of them for one drone.
C23_DetourDecidedOnce ==
  /\ [][(sim = "detour" /\ TickStep) =>
         \A i \in DOMAIN drones :
           LET dr == drones[i]
               logged == BlockedEntries(digitalFootprints', dr.id)
                           - BlockedEntries(digitalFootprints, dr.id)
           IN IF dr.status = "NORMAL" /\ OnOrInsideFence(dr)
              THEN /\ drones'[i].status = "REDIRECTED"
                   /\ IF isPathBlocked(Pt(dr), SafeZoneCentre, antiDroneTower)
                      THEN drones'[i].navTarget = NearerNode(dr) /\ logged = 1
                      ELSE drones'[i].navTarget = "safe" /\ logged = 0
              ELSE /\ logged = 0
                   /\ \/ drones'[i].navTarget = dr.navTarget
                      \/ dr.navTarget \in {"node0", "node1"} /\ drones'[i].navTarget = "safe"]_vars
  /\ [](sim = "detour" =>
          \A i \in DOMAIN drones : BlockedEntries(digitalFootprints, drones[i].id) <= 1)

\* a drone was sent round the tower, has passed its node and flies on, with
\* its single 'Path blocked' entry in the log
C23_Witness ==
  /\ sim = "detour"
  /\ \E i \in DOMAIN drones :
       /\ drones[i].status = "REDIRECTED" /\ drones[i].navTarget = "safe"
       /\ BlockedEntries(digitalFootprints, drones[i].id) = 1
       /\ \E j \in DOMAIN drones : j # i /\ BlockedEntries(digitalFootprints, drones[j].id) = 0
                                    /\ drones[j].navTarget = "safe"

OnDetour(i) == i \in DOMAIN drones /\ drones[i].navTarget \in {"node0", "node1"}

\* the drone is gone or has been created anew: unmount, reset, slider
Discarded(i) == ~mounted \/ i \notin DOMAIN drones \/ drones[i].status = "NORMAL"

\* C24: in the detour variant navTarget is null exactly while the drone is
\* NORMAL; a tick replaces a flanking node by the safe-zone centre exactly
\* when the new position is within two steps of the node, and never changes
\* a navTarget that is the safe-zone centre; while ticks keep coming every
\* drone sent to a node gets the safe-zone centre as navTarget (unless the
\* run is discarded first).
C24_NavTargetSequence ==
  /\ [](sim = "detour" =>
          \A i \in DOMAIN drones : drones[i].navTarget = "null" <=> drones[i].status = "NORMAL")
  /\ [][(sim = "detour" /\ TickStep) =>
         \A i \in DOMAIN drones :
           LET nav == drones[i].navTarget
           IN /\ nav = "safe" => drones'[i].navTarget = "safe"
              /\ nav \in {"node0", "node1"} =>
                   drones'[i].navTarget =
                     IF DistSq(Pt(drones'[i]), RedirectDestination(nav))
                          < (2 * DRONE_SPEED) * (2 * DRONE_SPEED)
                     THEN "safe" ELSE nav]_vars
  /\ \A i \in 1..MaxDrones :
       (sim = "detour" /\ OnDetour(i)) ~> (Discarded(i) \/ drones[i].navTarget = "safe")

\* a drone has come within two steps of its node and now heads for the
\* safe zone, which it has not reached yet
C24_Witness ==
  /\ sim = "detour"
  /\ \E i \in DOMAIN drones :
       /\ drones[i].status = "REDIRECTED" /\ drones[i].navTarget = "safe"
       /\ DistSq(drones[i], LeftNode) < (2 * DRONE_SPEED) * (2 * DRONE_SPEED)
       /\ DistSq(drones[i], LeftNode) >= DRONE_SPEED * DRONE_SPEED

\* a step of the injection tick: the only step that moves the clock forward
InjTickStep == simulationTime' > simulationTime

InjTickStepIsTick == [][(sim = "inject") => (InjTickStep <=> InjRunSimulationTick)]_vars

WithinStep(pos, wp) == DistSq(pos, wp) < INJ_DRONE_SPEED * INJ_DRONE_SPEED

\* C25: both waypoint indices stay within 0..number of waypoints; a tick
\* leaves an index alone or adds 1 to it, and adds 1 only when the new
\* position of that track is within one step of the waypoint the index
\* pointed to; no other step changes an index, except that a reset puts it
\* back to 0; a track whose index has reached the number of waypoints is
\* not moved along the list any more.
C25_WaypointIndices ==
  /\ [](sim = "inject" =>
          /\ currentWaypointIdx \in 0..Len(waypoints)
          /\ reportedWaypointIdx \in 0..Len(waypoints))
  /\ [][(sim = "inject" /\ InjTickStep) =>
          /\ reportedWaypointIdx' \in {reportedWaypointIdx, reportedWaypointIdx + 1}
          /\ reportedWaypointIdx' = reportedWaypointIdx + 1 =>
               WithinStep(reportedDrone', waypoints'[reportedWaypointIdx + 1])
          /\ currentWaypointIdx' \in {currentWaypointIdx, currentWaypointIdx + 1}
          /\ currentWaypointIdx' = currentWaypointIdx + 1 =>
               WithinStep(drone', waypoints'[currentWaypointIdx + 1])
          /\ reportedWaypointIdx = Len(waypoints) => reportedDrone' = reportedDrone
          /\ currentWaypointIdx = Len(waypoints) =>
               drone' \in {drone, moveTowards(drone, maliciousTarget, INJ_DRONE_SPEED)}]_vars
  /\ [][(sim = "inject" /\ ~InjTickStep) =>
          /\ reportedWaypointIdx' \in {reportedWaypointIdx, 0}
          /\ currentWaypointIdx' \in {currentWaypointIdx, 0}]_vars

\* the reported track has passed its first waypoint and flies to the second
C25_Witness ==
  /\ sim = "inject" /\ reportedWaypointIdx = 1 /\ isPlaying
  /\ ~WithinStep(reportedDrone, waypoints[1])

\* how many entries with message msg a step adds to the log
Logged(msg) == CountMsg(digitalFootprints', msg) - CountMsg(digitalFootprints, msg)

Enters(ph) == attackPhase # ph /\ attackPhase' = ph

\* the entries that announce a phase
PhaseEntries == {"intrusion", "override ack", "actual location", "fake arrived"}

\* C26: the tick that enters ATTACK_INJECT logs one 'ATTACK' intrusion
\* entry, the tick that enters HIJACKED one 'SPOOF' acknowledgement, the
\* tick that enters COMPLETED one 'ATTACK' and one 'SPOOF' entry; no other
\* tick and no pause or resume logs any of them, so a run's log holds each
\* of them at most once, and exactly once when the phase has been reached.
C26_PhaseEntriesOnce ==
  /\ [][(sim = "inject" /\ InjTickStep) =>
          /\ Logged("intrusion") = IF Enters("ATTACK_INJECT") THEN 1 ELSE 0
          /\ Logged("override ack") = IF Enters("HIJACKED") THEN 1 ELSE 0
          /\ Logged("actual location") = IF Enters("COMPLETED") THEN 1 ELSE 0
          /\ Logged("fake arrived") = IF Enters("COMPLETED") THEN 1 ELSE 0]_vars
  /\ [][(sim = "inject" /\ ~InjTickStep /\ digitalFootprints' # <<>>) =>
          \A msg \in PhaseEntries : Logged(msg) = 0]_vars
  /\ [](sim = "inject" =>
          /\ CountMsg(digitalFootprints, "intrusion")
               = IF InjPhaseRank(attackPhase) >= InjPhaseRank("ATTACK_INJECT") THEN 1 ELSE 0
          /\ CountMsg(digitalFootprints, "override ack")
               = IF InjPhaseRank(attackPhase) >= InjPhaseRank("HIJACKED") THEN 1 ELSE 0
          /\ CountMsg(digitalFootprints, "actual location")
               = IF attackPhase = "COMPLETED" THEN 1 ELSE 0
          /\ CountMsg(digitalFootprints, "fake arrived")
               = IF attackPhase = "COMPLETED" THEN 1 ELSE 0
          /\ \A k \in DOMAIN digitalFootprints :
               digitalFootprints[k].msg \in {"intrusion", "actual location"}
                 <=> digitalFootprints[k].type = "ATTACK")

\* a run has gone through all its phases and completed
C26_Witness ==
  /\ sim = "inject" /\ attackPhase = "COMPLETED"
  /\ CountMsg(digitalFootprints, "intrusion") = 1
  /\ CountMsg(digitalFootprints, "override ack") = 1
  /\ CountType(digitalFootprints, "ATTACK") = 2

(***************************************************************************)
(* Claims on the keyboard scenario: flags and bounds                       *)
(***************************************************************************)
\* normal 0, redirecting 1, landed 2
Stage(dr) == IF ~dr.isSpoofed THEN 0 ELSE IF dr.isRedirecting THEN 1 ELSE 2

KbdRestarts == resetGame \/ KbdUnmount

\* C27: in the keyboard scenario isRedirecting implies isSpoofed in every
\* state, and a step that is not a reset leaves the drone where it is in
\* normal -> redirecting -> landed or moves it one place forward: isSpoofed
\* never goes back to false and a landed drone is never redirected again.
C27_FlagsForward ==
  /\ [](sim = "keyboard" => (state.drone.isRedirecting => state.drone.isSpoofed))
  /\ [][(sim = "keyboard" /\ ~KbdRestarts) =>
          /\ Stage(state'.drone) \in {Stage(state.drone), Stage(state.drone) + 1}
          /\ state.drone.isSpoofed => state'.drone.isSpoofed
          /\ Stage(state.drone) = 2 => state'.drone = state.drone]_vars

\* the drone has breached the fence, was flown to the safe zone and landed
C27_Witness ==
  /\ sim = "keyboard" /\ mounted
  /\ Stage(state.drone) = 2 /\ Pt(state.drone) = RedirectTarget
  /\ \E k \in DOMAIN logs : logs[k] = LandedMsg

InsideWorld(dr) ==
  /\ 0 <= dr.x /\ dr.x <= KbdWorld.width - droneSize.width
  /\ 0 <= dr.y /\ dr.y <= KbdWorld.height - droneSize.height

\* C28: in the keyboard scenario the drone's rectangle is inside the world
\* in every state, 0 <= x <= 760 and 0 <= y <= 560, in keyboard flight and
\* while the drone is being flown to the safe zone.
C28_InsideWorld == sim = "keyboard" => InsideWorld(state.drone)

\* the drone is on its way to the safe zone, past the left end of the fence
C28_Witness ==
  /\ sim = "keyboard" /\ Stage(state.drone) = 1
  /\ state.drone.x < dangerZone.x - dangerZone.fenceRadius

(***************************************************************************)
(* Claims on progress and on the paused injection run                      *)
(***************************************************************************)
EnRoute(i) == sim \in MassSims /\ i \in DOMAIN drones /\ drones[i].status = "REDIRECTED"

\* C29: in both mass-redirection variants, while the interval keeps calling
\* the tick, every REDIRECTED drone becomes SAFE, directly or by way of its
\* node (unless a reset, the slider or leaving the page discards it first);
\* a drone that is REDIRECTED after a tick has moved in that tick.
C29_RedirectedBecomesSafe ==
  /\ \A i \in 1..MaxDrones :
       EnRoute(i) ~> (Discarded(i) \/ drones[i].status = "SAFE")
  /\ [][TickStep =>
          \A i \in DOMAIN drones :
            drones'[i].status = "REDIRECTED" => Pt(drones'[i]) # Pt(drones[i])]_vars

\* a drone that was sent round the tower has passed its node and is SAFE
C29_Witness ==
  /\ sim = "detour"
  /\ \E i \in DOMAIN drones :
       /\ drones[i].status = "SAFE"
       /\ \E k \in DOMAIN drones[i].path :
            DistSq(drones[i].path[k], LeftNode) < (2 * DRONE_SPEED) * (2 * DRONE_SPEED)

Paused == sim = "inject" /\ mounted /\ ~isPlaying

\* what a pause has to keep
RunProgress ==
  <<simulationTime, attackPhase, drone, reportedDrone, dronePath, reportedPath,
    currentWaypointIdx, reportedWaypointIdx>>

\* C30: in the injection scenario a paused run has no interval, so no tick
\* executes; as long as the run stays paused the time, the phase, both
\* positions, both paths, both indices and the log keep their values, and
\* the step that resumes it keeps all of them but the log; a tick runs only
\* while playing and adds 50 ms, so the first tick after the pause continues
\* from the time at which the run was paused.
C30_PauseFreezes ==
  /\ [](Paused => timers = {})
  /\ [][(Paused /\ ~RunEnds) =>
          /\ UNCHANGED RunProgress
          /\ ~isPlaying' => UNCHANGED digitalFootprints]_vars
  /\ [][(sim = "inject" /\ InjTickStep) =>
          isPlaying /\ simulationTime' = simulationTime + SIMULATION_SPEED]_vars

\* a run paused while the drone is hijacked
C30_Witness ==
  /\ Paused /\ attackPhase = "HIJACKED" /\ simulationTime > 8000
  /\ Len(dronePath) > 100

(***************************************************************************)
(* Claims on the start of an injection run                                 *)
(***************************************************************************)
\* the run has been started since the last reset
InjStarted == isPlaying \/ simulationTime > 0

\* C31: in the injection scenario the log of a run holds the 'Simulation
\* initiated' entry and the 'Loaded mission plan' entry once each, however
\* often the run is paused and resumed.
C31_StartEntriesOnce ==
  sim = "inject" =>
    /\ CountMsg(digitalFootprints, "initiated") <= 1
    /\ CountMsg(digitalFootprints, "mission loaded") <= 1
    /\ InjStarted => /\ CountMsg(digitalFootprints, "initiated") = 1
                     /\ CountMsg(digitalFootprints, "mission loaded") = 1

(***************************************************************************)
(* Claims on the keyboard scenario: the spoofed drone, the reset, the      *)
(* dashboard and the log panel                                             *)
(***************************************************************************)
\* the keys moveDrone reads, and the sets of keys held that are tried: each
\* key alone, two diagonals, and all of them
MoveKeys == {"w", "a", "s", "d", "ArrowUp", "ArrowDown", "ArrowLeft", "ArrowRight"}
HeldSets == {{k} : k \in MoveKeys} \cup {{"w", "a"}, {"ArrowDown", "ArrowRight"}, MoveKeys}

Nearer(a, b) == DistSq(a, RedirectTarget) < DistSq(b, RedirectTarget)

\* C32: in the keyboard scenario, once the drone is spoofed the keys held
\* have no effect: the updater gives the same state with keys held as without;
\* during redirection that state has the drone nearer to (80,80) px (or
\* landed there), after the landing it is the state as it was; and that
\* state is what a tick sets.
C32_KeysIgnored ==
  /\ [](sim = "keyboard" /\ mounted /\ state.drone.isSpoofed =>
          LET unheld == UpdatedState(state, {}) IN
          /\ \A ks \in HeldSets : UpdatedState(state, ks) = unheld
          /\ Stage(state.drone) = 1 =>
                \/ Nearer(unheld.drone, state.drone)
                \/ Stage(unheld.drone) = 2 /\ Pt(unheld.drone) = RedirectTarget
          /\ Stage(state.drone) = 2 => unheld = state)
  /\ [][updateGame /\ state.drone.isSpoofed => state' = UpdatedState(state, {})]_vars

\* the drone is on its way to the safe zone, already out of the fence, while
\* the pilot holds "w" (and the interval's callback has it)
C32_Witness ==
  /\ sim = "keyboard" /\ Stage(state.drone) = 1
  /\ keys = {"w"} /\ \E t \in timers : t.keys = {"w"}
  /\ ~Breached(state.drone)

\* the entries the log panel has received since the last reset, newest first
RunLog ==
  LET resets == {k \in DOMAIN logs : logs[k] = ResetMsg}
      upto == IF resets = {} THEN Len(logs)
              ELSE (CHOOSE k \in resets : \A m \in resets : k <= m) - 1
  IN SubSeq(logs, 1, upto)

Landed ==
  /\ Pt(state.drone) = RedirectTarget
  /\ state.drone.isSpoofed /\ ~state.drone.isRedirecting
  /\ dashboardState.inSafe
  /\ RunLog = <<LandedMsg, DangerMsg>>

\* C33: in the keyboard scenario, while the interval keeps calling updateGame
\* and nobody resets or leaves the page, a drone that has breached the
\* geofence lands: it comes to rest at exactly (80,80) px with isRedirecting
\* false, the landing message is logged once (while it flies the run's log is
\* the breach message alone, once landed the landing message above it), and
\* the dashboard's inSafe is true in the landed state.
C33_BreachedLands ==
  /\ [](sim = "keyboard" /\ mounted =>
          /\ Stage(state.drone) = 1 => RunLog = <<DangerMsg>>
          /\ Stage(state.drone) = 2 => Landed)
  /\ [][sim = "keyboard" /\ Stage(state.drone) = 1 /\ ~KbdRestarts =>
          Stage(state'.drone) = 1 \/ (Landed)']_vars
  /\ (sim = "keyboard" /\ Stage(state.drone) = 1) ~>
       (Landed \/ Stage(state.drone) = 0)

\* the drone has landed and the interval is still live
C33_Witness ==
  /\ sim = "keyboard" /\ mounted /\ timers # {}
  /\ Landed /\ state.statusMessage = LandedMsg

\* C34: in the keyboard scenario no tick alters the module-level
\* initialState object, also not the ticks that assign to the fields of the
\* state's drone during redirection, and resetGame in any state gives the
\* original initial state: x = 380 px, y = 540 px, not spoofed, not
\* redirecting, the initial status message.
C34_ResetRestores ==
  /\ [](sim = "keyboard" => initialObject.drone = initialDrone)
  /\ [][resetGame =>
          /\ state' = initialState
          /\ state'.drone = [x |-> 3800, y |-> 5400, isSpoofed |-> FALSE, isRedirecting |-> FALSE]
          /\ state'.statusMessage = "Use WASD or Arrow Keys to fly the drone."]_vars

\* the drone was flown into the fence, redirected and landed, and the state
\* has been reset since
C34_Witness ==
  /\ sim = "keyboard" /\ mounted
  /\ Len(logs) >= 3 /\ logs[1] = ResetMsg /\ logs[2] = LandedMsg
  /\ state = initialState /\ initialObject.held

\* C35: in the keyboard scenario, in every state in which the dashboard's
\* inDanger is true (the drone's centre is less than 150 px from the centre
\* of the danger zone) the drone is flagged spoofed.
C35_InDangerIsSpoofed ==
  sim = "keyboard" /\ mounted /\ dashboardState.inDanger => state.drone.isSpoofed

KbdMessages == {DangerMsg, LandedMsg, ResetMsg}

\* msg was put in front of the panel and what is beyond five entries dropped
PutInFront(msg) ==
  /\ logs'[1] = msg
  /\ Tail(logs') = SubSeq(logs, 1, Min(Len(logs), LogLimit - 1))

\* C36: in the keyboard scenario the log panel holds at most 5 entries,
\* newest first: every step that changes it puts one message in front of the
\* entries it had and keeps the first four of those at most; the breach and
\* the landing are logged by the tick that sets them, and resetGame keeps the
\* panel and puts 'Simulation Reset.' in front.
C36_LogPanel ==
  /\ [](sim = "keyboard" => Len(logs) <= LogLimit /\ Len(logs) <= 5)
  /\ [][(sim = "keyboard" /\ ~KbdUnmount) =>
          /\ logs' # logs => \E msg \in KbdMessages : PutInFront(msg)
          /\ Stage(state.drone) = 0 /\ Stage(state'.drone) = 1 => PutInFront(DangerMsg)
          /\ Stage(state.drone) = 1 /\ Stage(state'.drone) = 2 => PutInFront(LandedMsg)
          /\ resetGame => PutInFront(ResetMsg)]_vars

\* the panel is full after a reset and has lost entries: its oldest entry is
\* a landing, whose breach message is gone
C36_Witness ==
  /\ sim = "keyboard" /\ mounted
  /\ Len(logs) = LogLimit /\ logs[1] = ResetMsg /\ logs[LogLimit] = LandedMsg

====
